---------------------------- MODULE Spec2Model ----------------------------
(***************************************************************************)
(* Model of the tech-stack filter expression parser and evaluator          *)
(* (TechStackExpressionParser, TermExpression, NotExpression,              *)
(* AndExpression, OrExpression).                                           *)
(*                                                                         *)
(* A JavaScript string is a sequence of one-character strings, so that the *)
(* tokenizer scans characters exactly as the code does.  A token is such a *)
(* string; the token list is a sequence of them.  The cursor currentIndex  *)
(* is 0-based as in the code: the current token is tokens[currentIndex+1]. *)
(***************************************************************************)
EXTENDS Naturals, Sequences, FiniteSets, TLC

\* ------------------------------------------------------------------------
\* Bounds of the model
\* ------------------------------------------------------------------------
\* longest raw string enumerated character by character
MaxChars == 3
\* most lexemes in a space-joined expression
MaxLexemes == 4
\* longest tag list handed to evaluate
MaxTags == 2
\* longest run of NOT tokens in front of an operand
MaxNots == 3
\* most pairs of parentheses wrapped around an expression
MaxWrap == 2
\* most parse calls made on one parser instance
MaxCalls == 2
\* most applyFilters() calls of one JobListComponent that parse a filter
MaxApplies == 2
\* most jobs loaded into the table
MaxRows == 1
\* most evaluate calls made on one tree that a caller kept
MaxEvaluations == 2
\* longest list of job ids stored or passed to reorderJobs
MaxOrder == 3

\* ------------------------------------------------------------------------
\* JavaScript strings
\* ------------------------------------------------------------------------
\* A string is the sequence of its UTF-16 code units.  A code unit is written
\* as itself when it is ASCII other than the backtick, or its low byte is
\* 0x80 or more (the code units a string of the module can hold), and
\* otherwise as its six-character escape, backslash u and four lower-case
\* hex digits.  A code point is the sequence of its one or two code units.
\* The tables are those of Unicode 17.0.0.

\* the code units String.prototype.trim removes: WhiteSpace and
\* LineTerminator of ECMAScript
WhiteSpace ==
  {"\t", "\n", "", "\f", "\r", " ", " ", " ", "\\u2000", "\\u2001",
   "\\u2002", "\\u2003", "\\u2004", "\\u2005", "\\u2006", "\\u2007",
   "\\u2008", "\\u2009", "\\u200a", "\\u2028", "\\u2029", "\\u202f",
   "\\u205f", "\\u3000", "﻿"}

\* A table is written as a string of cells of six characters each: a cell
\* holds one code unit, at its left, or is blank and holds none.
Cell(table, k) ==
  IF SubSeq(table, 6 * k - 5, 6 * k - 5) = "\\"
  THEN SubSeq(table, 6 * k - 5, 6 * k)
  ELSE SubSeq(table, 6 * k - 5, 6 * k - 5)

\* the code units in cells first..last of a table
Cells(table, first, last) ==
  SelectSeq([j \in 1..(last - first + 1) |-> Cell(table, first + j - 1)],
            LAMBDA unit : unit # " ")

\* the rows of a table whose rows have so many cells
Rows(table, width) == 1..(Len(table) \div (6 * width))

\* the code points String.prototype.toLowerCase changes out of context, a row
\* each: two cells for the code point and two for what it becomes
LowerCaseTable ==
  "A           a           B           b           C           c           D           d           E           e           F           f           G           g           H           h           I           i           J           j           K           k           L           l           M           m           N           n           O           o           P           p           "
  \o "Q           q           R           r           S           s           T           t           U           u           V           v           W           w           X           x           Y           y           Z           z           À           à           Á           á           Â           â           Ã           ã           Ä           ä           Å           å           "
  \o "Æ           æ           Ç           ç           È           è           É           é           Ê           ê           Ë           ë           Ì           ì           Í           í           Î           î           Ï           ï           Ð           ð           Ñ           ñ           Ò           ò           Ó           ó           Ô           ô           Õ           õ           "
  \o "Ö           ö           Ø           ø           Ù           ù           Ú           ú           Û           û           Ü           ü           Ý           ý           Þ           þ           \\u0100      \\u0101      \\u0102      \\u0103      \\u0104      \\u0105      \\u0106      \\u0107      \\u0108      \\u0109      \\u010a      \\u010b      \\u010c      \\u010d      \\u010e      \\u010f      "
  \o "\\u0110      \\u0111      \\u0112      \\u0113      \\u0114      \\u0115      \\u0116      \\u0117      \\u0118      \\u0119      \\u011a      \\u011b      \\u011c      \\u011d      \\u011e      \\u011f      \\u0120      \\u0121      \\u0122      \\u0123      \\u0124      \\u0125      \\u0126      \\u0127      \\u0128      \\u0129      \\u012a      \\u012b      \\u012c      \\u012d      \\u012e      \\u012f      "
  \o "\\u0130      i     \\u0307\\u0132      \\u0133      \\u0134      \\u0135      \\u0136      \\u0137      \\u0139      \\u013a      \\u013b      \\u013c      \\u013d      \\u013e      \\u013f      \\u0140      \\u0141      \\u0142      \\u0143      \\u0144      \\u0145      \\u0146      \\u0147      \\u0148      \\u014a      \\u014b      \\u014c      \\u014d      \\u014e      \\u014f      \\u0150      \\u0151      "
  \o "\\u0152      \\u0153      \\u0154      \\u0155      \\u0156      \\u0157      \\u0158      \\u0159      \\u015a      \\u015b      \\u015c      \\u015d      \\u015e      \\u015f      \\u0160      \\u0161      \\u0162      \\u0163      \\u0164      \\u0165      \\u0166      \\u0167      \\u0168      \\u0169      \\u016a      \\u016b      \\u016c      \\u016d      \\u016e      \\u016f      \\u0170      \\u0171      "
  \o "\\u0172      \\u0173      \\u0174      \\u0175      \\u0176      \\u0177      \\u0178      ÿ           \\u0179      \\u017a      \\u017b      \\u017c      \\u017d      \\u017e      Ɓ           \\u0253      Ƃ           ƃ           Ƅ           ƅ           Ɔ           \\u0254      Ƈ           ƈ           Ɖ           \\u0256      Ɗ           \\u0257      Ƌ           ƌ           Ǝ           ǝ           "
  \o "Ə           \\u0259      Ɛ           \\u025b      Ƒ           ƒ           Ɠ           \\u0260      Ɣ           \\u0263      Ɩ           \\u0269      Ɨ           \\u0268      Ƙ           ƙ           Ɯ           \\u026f      Ɲ           \\u0272      Ɵ           \\u0275      Ơ           ơ           Ƣ           ƣ           Ƥ           ƥ           Ʀ           ʀ           Ƨ           ƨ           "
  \o "Ʃ           ʃ           Ƭ           ƭ           Ʈ           ʈ           Ư           ư           Ʊ           ʊ           Ʋ           ʋ           Ƴ           ƴ           Ƶ           ƶ           Ʒ           ʒ           Ƹ           ƹ           Ƽ           ƽ           Ǆ           ǆ           ǅ           ǆ           Ǉ           ǉ           ǈ           ǉ           Ǌ           ǌ           "
  \o "ǋ           ǌ           Ǎ           ǎ           Ǐ           ǐ           Ǒ           ǒ           Ǔ           ǔ           Ǖ           ǖ           Ǘ           ǘ           Ǚ           ǚ           Ǜ           ǜ           Ǟ           ǟ           Ǡ           ǡ           Ǣ           ǣ           Ǥ           ǥ           Ǧ           ǧ           Ǩ           ǩ           Ǫ           ǫ           "
  \o "Ǭ           ǭ           Ǯ           ǯ           Ǳ           ǳ           ǲ           ǳ           Ǵ           ǵ           Ƕ           ƕ           Ƿ           ƿ           Ǹ           ǹ           Ǻ           ǻ           Ǽ           ǽ           Ǿ           ǿ           \\u0200      \\u0201      \\u0202      \\u0203      \\u0204      \\u0205      \\u0206      \\u0207      \\u0208      \\u0209      "
  \o "\\u020a      \\u020b      \\u020c      \\u020d      \\u020e      \\u020f      \\u0210      \\u0211      \\u0212      \\u0213      \\u0214      \\u0215      \\u0216      \\u0217      \\u0218      \\u0219      \\u021a      \\u021b      \\u021c      \\u021d      \\u021e      \\u021f      \\u0220      ƞ           \\u0222      \\u0223      \\u0224      \\u0225      \\u0226      \\u0227      \\u0228      \\u0229      "
  \o "\\u022a      \\u022b      \\u022c      \\u022d      \\u022e      \\u022f      \\u0230      \\u0231      \\u0232      \\u0233      \\u023a      \\u2c65      \\u023b      \\u023c      \\u023d      ƚ           \\u023e      \\u2c66      \\u0241      \\u0242      \\u0243      ƀ           \\u0244      ʉ           \\u0245      ʌ           \\u0246      \\u0247      \\u0248      \\u0249      \\u024a      \\u024b      "
  \o "\\u024c      \\u024d      \\u024e      \\u024f      \\u0370      \\u0371      \\u0372      \\u0373      \\u0376      \\u0377      \\u037f      ϳ           Ά           ά           Έ           έ           Ή           ή           Ί           ί           Ό           ό           Ύ           ύ           Ώ           ώ           Α           α           Β           β           Γ           γ           "
  \o "Δ           δ           Ε           ε           Ζ           ζ           Η           η           Θ           θ           Ι           ι           Κ           κ           Λ           λ           Μ           μ           Ν           ν           Ξ           ξ           Ο           ο           Π           π           Ρ           ρ           Σ           σ           Τ           τ           "
  \o "Υ           υ           Φ           φ           Χ           χ           Ψ           ψ           Ω           ω           Ϊ           ϊ           Ϋ           ϋ           Ϗ           ϗ           Ϙ           ϙ           Ϛ           ϛ           Ϝ           ϝ           Ϟ           ϟ           Ϡ           ϡ           Ϣ           ϣ           Ϥ           ϥ           Ϧ           ϧ           "
  \o "Ϩ           ϩ           Ϫ           ϫ           Ϭ           ϭ           Ϯ           ϯ           ϴ           θ           Ϸ           ϸ           Ϲ           ϲ           Ϻ           ϻ           Ͻ           \\u037b      Ͼ           \\u037c      Ͽ           \\u037d      \\u0400      \\u0450      \\u0401      \\u0451      \\u0402      \\u0452      \\u0403      \\u0453      \\u0404      \\u0454      "
  \o "\\u0405      \\u0455      \\u0406      \\u0456      \\u0407      \\u0457      \\u0408      \\u0458      \\u0409      \\u0459      \\u040a      \\u045a      \\u040b      \\u045b      \\u040c      \\u045c      \\u040d      \\u045d      \\u040e      \\u045e      \\u040f      \\u045f      \\u0410      \\u0430      \\u0411      \\u0431      \\u0412      \\u0432      \\u0413      \\u0433      \\u0414      \\u0434      "
  \o "\\u0415      \\u0435      \\u0416      \\u0436      \\u0417      \\u0437      \\u0418      \\u0438      \\u0419      \\u0439      \\u041a      \\u043a      \\u041b      \\u043b      \\u041c      \\u043c      \\u041d      \\u043d      \\u041e      \\u043e      \\u041f      \\u043f      \\u0420      \\u0440      \\u0421      \\u0441      \\u0422      \\u0442      \\u0423      \\u0443      \\u0424      \\u0444      "
  \o "\\u0425      \\u0445      \\u0426      \\u0446      \\u0427      \\u0447      \\u0428      \\u0448      \\u0429      \\u0449      \\u042a      \\u044a      \\u042b      \\u044b      \\u042c      \\u044c      \\u042d      \\u044d      \\u042e      \\u044e      \\u042f      \\u044f      \\u0460      \\u0461      \\u0462      \\u0463      \\u0464      \\u0465      \\u0466      \\u0467      \\u0468      \\u0469      "
  \o "\\u046a      \\u046b      \\u046c      \\u046d      \\u046e      \\u046f      \\u0470      \\u0471      \\u0472      \\u0473      \\u0474      \\u0475      \\u0476      \\u0477      \\u0478      \\u0479      \\u047a      \\u047b      \\u047c      \\u047d      \\u047e      \\u047f      Ҁ           ҁ           Ҋ           ҋ           Ҍ           ҍ           Ҏ           ҏ           Ґ           ґ           "
  \o "Ғ           ғ           Ҕ           ҕ           Җ           җ           Ҙ           ҙ           Қ           қ           Ҝ           ҝ           Ҟ           ҟ           Ҡ           ҡ           Ң           ң           Ҥ           ҥ           Ҧ           ҧ           Ҩ           ҩ           Ҫ           ҫ           Ҭ           ҭ           Ү           ү           Ұ           ұ           "
  \o "Ҳ           ҳ           Ҵ           ҵ           Ҷ           ҷ           Ҹ           ҹ           Һ           һ           Ҽ           ҽ           Ҿ           ҿ           Ӏ           ӏ           Ӂ           ӂ           Ӄ           ӄ           Ӆ           ӆ           Ӈ           ӈ           Ӊ           ӊ           Ӌ           ӌ           Ӎ           ӎ           Ӑ           ӑ           "
  \o "Ӓ           ӓ           Ӕ           ӕ           Ӗ           ӗ           Ә           ә           Ӛ           ӛ           Ӝ           ӝ           Ӟ           ӟ           Ӡ           ӡ           Ӣ           ӣ           Ӥ           ӥ           Ӧ           ӧ           Ө           ө           Ӫ           ӫ           Ӭ           ӭ           Ӯ           ӯ           Ӱ           ӱ           "
  \o "Ӳ           ӳ           Ӵ           ӵ           Ӷ           ӷ           Ӹ           ӹ           Ӻ           ӻ           Ӽ           ӽ           Ӿ           ӿ           \\u0500      \\u0501      \\u0502      \\u0503      \\u0504      \\u0505      \\u0506      \\u0507      \\u0508      \\u0509      \\u050a      \\u050b      \\u050c      \\u050d      \\u050e      \\u050f      \\u0510      \\u0511      "
  \o "\\u0512      \\u0513      \\u0514      \\u0515      \\u0516      \\u0517      \\u0518      \\u0519      \\u051a      \\u051b      \\u051c      \\u051d      \\u051e      \\u051f      \\u0520      \\u0521      \\u0522      \\u0523      \\u0524      \\u0525      \\u0526      \\u0527      \\u0528      \\u0529      \\u052a      \\u052b      \\u052c      \\u052d      \\u052e      \\u052f      \\u0531      \\u0561      "
  \o "\\u0532      \\u0562      \\u0533      \\u0563      \\u0534      \\u0564      \\u0535      \\u0565      \\u0536      \\u0566      \\u0537      \\u0567      \\u0538      \\u0568      \\u0539      \\u0569      \\u053a      \\u056a      \\u053b      \\u056b      \\u053c      \\u056c      \\u053d      \\u056d      \\u053e      \\u056e      \\u053f      \\u056f      \\u0540      \\u0570      \\u0541      \\u0571      "
  \o "\\u0542      \\u0572      \\u0543      \\u0573      \\u0544      \\u0574      \\u0545      \\u0575      \\u0546      \\u0576      \\u0547      \\u0577      \\u0548      \\u0578      \\u0549      \\u0579      \\u054a      \\u057a      \\u054b      \\u057b      \\u054c      \\u057c      \\u054d      \\u057d      \\u054e      \\u057e      \\u054f      \\u057f      \\u0550      ր           \\u0551      ց           "
  \o "\\u0552      ւ           \\u0553      փ           \\u0554      ք           \\u0555      օ           \\u0556      ֆ           Ⴀ           \\u2d00      Ⴁ           \\u2d01      Ⴂ           \\u2d02      Ⴃ           \\u2d03      Ⴄ           \\u2d04      Ⴅ           \\u2d05      Ⴆ           \\u2d06      Ⴇ           \\u2d07      Ⴈ           \\u2d08      Ⴉ           \\u2d09      Ⴊ           \\u2d0a      "
  \o "Ⴋ           \\u2d0b      Ⴌ           \\u2d0c      Ⴍ           \\u2d0d      Ⴎ           \\u2d0e      Ⴏ           \\u2d0f      Ⴐ           \\u2d10      Ⴑ           \\u2d11      Ⴒ           \\u2d12      Ⴓ           \\u2d13      Ⴔ           \\u2d14      Ⴕ           \\u2d15      Ⴖ           \\u2d16      Ⴗ           \\u2d17      Ⴘ           \\u2d18      Ⴙ           \\u2d19      Ⴚ           \\u2d1a      "
  \o "Ⴛ           \\u2d1b      Ⴜ           \\u2d1c      Ⴝ           \\u2d1d      Ⴞ           \\u2d1e      Ⴟ           \\u2d1f      Ⴠ           \\u2d20      Ⴡ           \\u2d21      Ⴢ           \\u2d22      Ⴣ           \\u2d23      Ⴤ           \\u2d24      Ⴥ           \\u2d25      Ⴧ           \\u2d27      Ⴭ           \\u2d2d      Ꭰ           \\uab70      Ꭱ           \\uab71      Ꭲ           \\uab72      "
  \o "Ꭳ           \\uab73      Ꭴ           \\uab74      Ꭵ           \\uab75      Ꭶ           \\uab76      Ꭷ           \\uab77      Ꭸ           \\uab78      Ꭹ           \\uab79      Ꭺ           \\uab7a      Ꭻ           \\uab7b      Ꭼ           \\uab7c      Ꭽ           \\uab7d      Ꭾ           \\uab7e      Ꭿ           \\uab7f      Ꮀ           ꮀ           Ꮁ           ꮁ           Ꮂ           ꮂ           "
  \o "Ꮃ           ꮃ           Ꮄ           ꮄ           Ꮅ           ꮅ           Ꮆ           ꮆ           Ꮇ           ꮇ           Ꮈ           ꮈ           Ꮉ           ꮉ           Ꮊ           ꮊ           Ꮋ           ꮋ           Ꮌ           ꮌ           Ꮍ           ꮍ           Ꮎ           ꮎ           Ꮏ           ꮏ           Ꮐ           ꮐ           Ꮑ           ꮑ           Ꮒ           ꮒ           "
  \o "Ꮓ           ꮓ           Ꮔ           ꮔ           Ꮕ           ꮕ           Ꮖ           ꮖ           Ꮗ           ꮗ           Ꮘ           ꮘ           Ꮙ           ꮙ           Ꮚ           ꮚ           Ꮛ           ꮛ           Ꮜ           ꮜ           Ꮝ           ꮝ           Ꮞ           ꮞ           Ꮟ           ꮟ           Ꮠ           ꮠ           Ꮡ           ꮡ           Ꮢ           ꮢ           "
  \o "Ꮣ           ꮣ           Ꮤ           ꮤ           Ꮥ           ꮥ           Ꮦ           ꮦ           Ꮧ           ꮧ           Ꮨ           ꮨ           Ꮩ           ꮩ           Ꮪ           ꮪ           Ꮫ           ꮫ           Ꮬ           ꮬ           Ꮭ           ꮭ           Ꮮ           ꮮ           Ꮯ           ꮯ           Ꮰ           ꮰ           Ꮱ           ꮱ           Ꮲ           ꮲ           "
  \o "Ꮳ           ꮳ           Ꮴ           ꮴ           Ꮵ           ꮵ           Ꮶ           ꮶ           Ꮷ           ꮷ           Ꮸ           ꮸ           Ꮹ           ꮹ           Ꮺ           ꮺ           Ꮻ           ꮻ           Ꮼ           ꮼ           Ꮽ           ꮽ           Ꮾ           ꮾ           Ꮿ           ꮿ           Ᏸ           ᏸ           Ᏹ           ᏹ           Ᏺ           ᏺ           "
  \o "Ᏻ           ᏻ           Ᏼ           ᏼ           Ᏽ           ᏽ           Ᲊ           ᲊ           Ა           ა           Ბ           ბ           Გ           გ           Დ           დ           Ე           ე           Ვ           ვ           Ზ           ზ           Თ           თ           Ი           ი           Კ           კ           Ლ           ლ           Მ           მ           "
  \o "Ნ           ნ           Ო           ო           Პ           პ           Ჟ           ჟ           Რ           რ           Ს           ს           Ტ           ტ           Უ           უ           Ფ           ფ           Ქ           ქ           Ღ           ღ           Ყ           ყ           Შ           შ           Ჩ           ჩ           Ც           ც           Ძ           ძ           "
  \o "Წ           წ           Ჭ           ჭ           Ხ           ხ           Ჯ           ჯ           Ჰ           ჰ           Ჱ           ჱ           Ჲ           ჲ           Ჳ           ჳ           Ჴ           ჴ           Ჵ           ჵ           Ჶ           ჶ           Ჷ           ჷ           Ჸ           ჸ           Ჹ           ჹ           Ჺ           ჺ           Ჽ           ჽ           "
  \o "Ჾ           ჾ           Ჿ           ჿ           \\u1e00      \\u1e01      \\u1e02      \\u1e03      \\u1e04      \\u1e05      \\u1e06      \\u1e07      \\u1e08      \\u1e09      \\u1e0a      \\u1e0b      \\u1e0c      \\u1e0d      \\u1e0e      \\u1e0f      \\u1e10      \\u1e11      \\u1e12      \\u1e13      \\u1e14      \\u1e15      \\u1e16      \\u1e17      \\u1e18      \\u1e19      \\u1e1a      \\u1e1b      "
  \o "\\u1e1c      \\u1e1d      \\u1e1e      \\u1e1f      \\u1e20      \\u1e21      \\u1e22      \\u1e23      \\u1e24      \\u1e25      \\u1e26      \\u1e27      \\u1e28      \\u1e29      \\u1e2a      \\u1e2b      \\u1e2c      \\u1e2d      \\u1e2e      \\u1e2f      \\u1e30      \\u1e31      \\u1e32      \\u1e33      \\u1e34      \\u1e35      \\u1e36      \\u1e37      \\u1e38      \\u1e39      \\u1e3a      \\u1e3b      "
  \o "\\u1e3c      \\u1e3d      \\u1e3e      \\u1e3f      \\u1e40      \\u1e41      \\u1e42      \\u1e43      \\u1e44      \\u1e45      \\u1e46      \\u1e47      \\u1e48      \\u1e49      \\u1e4a      \\u1e4b      \\u1e4c      \\u1e4d      \\u1e4e      \\u1e4f      \\u1e50      \\u1e51      \\u1e52      \\u1e53      \\u1e54      \\u1e55      \\u1e56      \\u1e57      \\u1e58      \\u1e59      \\u1e5a      \\u1e5b      "
  \o "\\u1e5c      \\u1e5d      \\u1e5e      \\u1e5f      \\u1e60      \\u1e61      \\u1e62      \\u1e63      \\u1e64      \\u1e65      \\u1e66      \\u1e67      \\u1e68      \\u1e69      \\u1e6a      \\u1e6b      \\u1e6c      \\u1e6d      \\u1e6e      \\u1e6f      \\u1e70      \\u1e71      \\u1e72      \\u1e73      \\u1e74      \\u1e75      \\u1e76      \\u1e77      \\u1e78      \\u1e79      \\u1e7a      \\u1e7b      "
  \o "\\u1e7c      \\u1e7d      \\u1e7e      \\u1e7f      Ẁ           ẁ           Ẃ           ẃ           Ẅ           ẅ           Ẇ           ẇ           Ẉ           ẉ           Ẋ           ẋ           Ẍ           ẍ           Ẏ           ẏ           Ẑ           ẑ           Ẓ           ẓ           Ẕ           ẕ           ẞ           ß           Ạ           ạ           Ả           ả           "
  \o "Ấ           ấ           Ầ           ầ           Ẩ           ẩ           Ẫ           ẫ           Ậ           ậ           Ắ           ắ           Ằ           ằ           Ẳ           ẳ           Ẵ           ẵ           Ặ           ặ           Ẹ           ẹ           Ẻ           ẻ           Ẽ           ẽ           Ế           ế           Ề           ề           Ể           ể           "
  \o "Ễ           ễ           Ệ           ệ           Ỉ           ỉ           Ị           ị           Ọ           ọ           Ỏ           ỏ           Ố           ố           Ồ           ồ           Ổ           ổ           Ỗ           ỗ           Ộ           ộ           Ớ           ớ           Ờ           ờ           Ở           ở           Ỡ           ỡ           Ợ           ợ           "
  \o "Ụ           ụ           Ủ           ủ           Ứ           ứ           Ừ           ừ           Ử           ử           Ữ           ữ           Ự           ự           Ỳ           ỳ           Ỵ           ỵ           Ỷ           ỷ           Ỹ           ỹ           Ỻ           ỻ           Ỽ           ỽ           Ỿ           ỿ           \\u1f08      \\u1f00      \\u1f09      \\u1f01      "
  \o "\\u1f0a      \\u1f02      \\u1f0b      \\u1f03      \\u1f0c      \\u1f04      \\u1f0d      \\u1f05      \\u1f0e      \\u1f06      \\u1f0f      \\u1f07      \\u1f18      \\u1f10      \\u1f19      \\u1f11      \\u1f1a      \\u1f12      \\u1f1b      \\u1f13      \\u1f1c      \\u1f14      \\u1f1d      \\u1f15      \\u1f28      \\u1f20      \\u1f29      \\u1f21      \\u1f2a      \\u1f22      \\u1f2b      \\u1f23      "
  \o "\\u1f2c      \\u1f24      \\u1f2d      \\u1f25      \\u1f2e      \\u1f26      \\u1f2f      \\u1f27      \\u1f38      \\u1f30      \\u1f39      \\u1f31      \\u1f3a      \\u1f32      \\u1f3b      \\u1f33      \\u1f3c      \\u1f34      \\u1f3d      \\u1f35      \\u1f3e      \\u1f36      \\u1f3f      \\u1f37      \\u1f48      \\u1f40      \\u1f49      \\u1f41      \\u1f4a      \\u1f42      \\u1f4b      \\u1f43      "
  \o "\\u1f4c      \\u1f44      \\u1f4d      \\u1f45      \\u1f59      \\u1f51      \\u1f5b      \\u1f53      \\u1f5d      \\u1f55      \\u1f5f      \\u1f57      \\u1f68      \\u1f60      \\u1f69      \\u1f61      \\u1f6a      \\u1f62      \\u1f6b      \\u1f63      \\u1f6c      \\u1f64      \\u1f6d      \\u1f65      \\u1f6e      \\u1f66      \\u1f6f      \\u1f67      ᾈ           ᾀ           ᾉ           ᾁ           "
  \o "ᾊ           ᾂ           ᾋ           ᾃ           ᾌ           ᾄ           ᾍ           ᾅ           ᾎ           ᾆ           ᾏ           ᾇ           ᾘ           ᾐ           ᾙ           ᾑ           ᾚ           ᾒ           ᾛ           ᾓ           ᾜ           ᾔ           ᾝ           ᾕ           ᾞ           ᾖ           ᾟ           ᾗ           ᾨ           ᾠ           ᾩ           ᾡ           "
  \o "ᾪ           ᾢ           ᾫ           ᾣ           ᾬ           ᾤ           ᾭ           ᾥ           ᾮ           ᾦ           ᾯ           ᾧ           Ᾰ           ᾰ           Ᾱ           ᾱ           Ὰ           \\u1f70      Ά           \\u1f71      ᾼ           ᾳ           Ὲ           \\u1f72      Έ           \\u1f73      Ὴ           \\u1f74      Ή           \\u1f75      ῌ           ῃ           "
  \o "Ῐ           ῐ           Ῑ           ῑ           Ὶ           \\u1f76      Ί           \\u1f77      Ῠ           ῠ           Ῡ           ῡ           Ὺ           \\u1f7a      Ύ           \\u1f7b      Ῥ           ῥ           Ὸ           \\u1f78      Ό           \\u1f79      Ὼ           \\u1f7c      Ώ           \\u1f7d      ῼ           ῳ           \\u2126      ω           \\u212a      k           "
  \o "\\u212b      å           \\u2132      \\u214e      \\u2160      \\u2170      \\u2161      \\u2171      \\u2162      \\u2172      \\u2163      \\u2173      \\u2164      \\u2174      \\u2165      \\u2175      \\u2166      \\u2176      \\u2167      \\u2177      \\u2168      \\u2178      \\u2169      \\u2179      \\u216a      \\u217a      \\u216b      \\u217b      \\u216c      \\u217c      \\u216d      \\u217d      "
  \o "\\u216e      \\u217e      \\u216f      \\u217f      Ↄ           ↄ           Ⓐ           ⓐ           Ⓑ           ⓑ           Ⓒ           ⓒ           Ⓓ           ⓓ           Ⓔ           ⓔ           Ⓕ           ⓕ           Ⓖ           ⓖ           Ⓗ           ⓗ           Ⓘ           ⓘ           Ⓙ           ⓙ           Ⓚ           ⓚ           Ⓛ           ⓛ           Ⓜ           ⓜ           "
  \o "Ⓝ           ⓝ           Ⓞ           ⓞ           Ⓟ           ⓟ           Ⓠ           ⓠ           Ⓡ           ⓡ           Ⓢ           ⓢ           Ⓣ           ⓣ           Ⓤ           ⓤ           Ⓥ           ⓥ           Ⓦ           ⓦ           Ⓧ           ⓧ           Ⓨ           ⓨ           Ⓩ           ⓩ           \\u2c00      \\u2c30      \\u2c01      \\u2c31      \\u2c02      \\u2c32      "
  \o "\\u2c03      \\u2c33      \\u2c04      \\u2c34      \\u2c05      \\u2c35      \\u2c06      \\u2c36      \\u2c07      \\u2c37      \\u2c08      \\u2c38      \\u2c09      \\u2c39      \\u2c0a      \\u2c3a      \\u2c0b      \\u2c3b      \\u2c0c      \\u2c3c      \\u2c0d      \\u2c3d      \\u2c0e      \\u2c3e      \\u2c0f      \\u2c3f      \\u2c10      \\u2c40      \\u2c11      \\u2c41      \\u2c12      \\u2c42      "
  \o "\\u2c13      \\u2c43      \\u2c14      \\u2c44      \\u2c15      \\u2c45      \\u2c16      \\u2c46      \\u2c17      \\u2c47      \\u2c18      \\u2c48      \\u2c19      \\u2c49      \\u2c1a      \\u2c4a      \\u2c1b      \\u2c4b      \\u2c1c      \\u2c4c      \\u2c1d      \\u2c4d      \\u2c1e      \\u2c4e      \\u2c1f      \\u2c4f      \\u2c20      \\u2c50      \\u2c21      \\u2c51      \\u2c22      \\u2c52      "
  \o "\\u2c23      \\u2c53      \\u2c24      \\u2c54      \\u2c25      \\u2c55      \\u2c26      \\u2c56      \\u2c27      \\u2c57      \\u2c28      \\u2c58      \\u2c29      \\u2c59      \\u2c2a      \\u2c5a      \\u2c2b      \\u2c5b      \\u2c2c      \\u2c5c      \\u2c2d      \\u2c5d      \\u2c2e      \\u2c5e      \\u2c2f      \\u2c5f      \\u2c60      \\u2c61      \\u2c62      \\u026b      \\u2c63      \\u1d7d      "
  \o "\\u2c64      \\u027d      \\u2c67      \\u2c68      \\u2c69      \\u2c6a      \\u2c6b      \\u2c6c      \\u2c6d      \\u0251      \\u2c6e      \\u0271      \\u2c6f      \\u0250      \\u2c70      \\u0252      \\u2c72      \\u2c73      \\u2c75      \\u2c76      \\u2c7e      \\u023f      \\u2c7f      \\u0240      Ⲁ           ⲁ           Ⲃ           ⲃ           Ⲅ           ⲅ           Ⲇ           ⲇ           "
  \o "Ⲉ           ⲉ           Ⲋ           ⲋ           Ⲍ           ⲍ           Ⲏ           ⲏ           Ⲑ           ⲑ           Ⲓ           ⲓ           Ⲕ           ⲕ           Ⲗ           ⲗ           Ⲙ           ⲙ           Ⲛ           ⲛ           Ⲝ           ⲝ           Ⲟ           ⲟ           Ⲡ           ⲡ           Ⲣ           ⲣ           Ⲥ           ⲥ           Ⲧ           ⲧ           "
  \o "Ⲩ           ⲩ           Ⲫ           ⲫ           Ⲭ           ⲭ           Ⲯ           ⲯ           Ⲱ           ⲱ           Ⲳ           ⲳ           Ⲵ           ⲵ           Ⲷ           ⲷ           Ⲹ           ⲹ           Ⲻ           ⲻ           Ⲽ           ⲽ           Ⲿ           ⲿ           Ⳁ           ⳁ           Ⳃ           ⳃ           Ⳅ           ⳅ           Ⳇ           ⳇ           "
  \o "Ⳉ           ⳉ           Ⳋ           ⳋ           Ⳍ           ⳍ           Ⳏ           ⳏ           Ⳑ           ⳑ           Ⳓ           ⳓ           Ⳕ           ⳕ           Ⳗ           ⳗ           Ⳙ           ⳙ           Ⳛ           ⳛ           Ⳝ           ⳝ           Ⳟ           ⳟ           Ⳡ           ⳡ           Ⳣ           ⳣ           Ⳬ           ⳬ           Ⳮ           ⳮ           "
  \o "Ⳳ           ⳳ           \\ua640      \\ua641      \\ua642      \\ua643      \\ua644      \\ua645      \\ua646      \\ua647      \\ua648      \\ua649      \\ua64a      \\ua64b      \\ua64c      \\ua64d      \\ua64e      \\ua64f      \\ua650      \\ua651      \\ua652      \\ua653      \\ua654      \\ua655      \\ua656      \\ua657      \\ua658      \\ua659      \\ua65a      \\ua65b      \\ua65c      \\ua65d      "
  \o "\\ua65e      \\ua65f      \\ua660      \\ua661      \\ua662      \\ua663      \\ua664      \\ua665      \\ua666      \\ua667      \\ua668      \\ua669      \\ua66a      \\ua66b      \\ua66c      \\ua66d      Ꚁ           ꚁ           Ꚃ           ꚃ           Ꚅ           ꚅ           Ꚇ           ꚇ           Ꚉ           ꚉ           Ꚋ           ꚋ           Ꚍ           ꚍ           Ꚏ           ꚏ           "
  \o "Ꚑ           ꚑ           Ꚓ           ꚓ           Ꚕ           ꚕ           Ꚗ           ꚗ           Ꚙ           ꚙ           Ꚛ           ꚛ           \\ua722      \\ua723      \\ua724      \\ua725      \\ua726      \\ua727      \\ua728      \\ua729      \\ua72a      \\ua72b      \\ua72c      \\ua72d      \\ua72e      \\ua72f      \\ua732      \\ua733      \\ua734      \\ua735      \\ua736      \\ua737      "
  \o "\\ua738      \\ua739      \\ua73a      \\ua73b      \\ua73c      \\ua73d      \\ua73e      \\ua73f      \\ua740      \\ua741      \\ua742      \\ua743      \\ua744      \\ua745      \\ua746      \\ua747      \\ua748      \\ua749      \\ua74a      \\ua74b      \\ua74c      \\ua74d      \\ua74e      \\ua74f      \\ua750      \\ua751      \\ua752      \\ua753      \\ua754      \\ua755      \\ua756      \\ua757      "
  \o "\\ua758      \\ua759      \\ua75a      \\ua75b      \\ua75c      \\ua75d      \\ua75e      \\ua75f      \\ua760      \\ua761      \\ua762      \\ua763      \\ua764      \\ua765      \\ua766      \\ua767      \\ua768      \\ua769      \\ua76a      \\ua76b      \\ua76c      \\ua76d      \\ua76e      \\ua76f      \\ua779      \\ua77a      \\ua77b      \\ua77c      \\ua77d      \\u1d79      \\ua77e      \\ua77f      "
  \o "Ꞁ           ꞁ           Ꞃ           ꞃ           Ꞅ           ꞅ           Ꞇ           ꞇ           Ꞌ           ꞌ           Ɥ           \\u0265      Ꞑ           ꞑ           Ꞓ           ꞓ           Ꞗ           ꞗ           Ꞙ           ꞙ           Ꞛ           ꞛ           Ꞝ           ꞝ           Ꞟ           ꞟ           Ꞡ           ꞡ           Ꞣ           ꞣ           Ꞥ           ꞥ           "
  \o "Ꞧ           ꞧ           Ꞩ           ꞩ           Ɦ           \\u0266      Ɜ           \\u025c      Ɡ           \\u0261      Ɬ           \\u026c      Ɪ           \\u026a      Ʞ           ʞ           Ʇ           ʇ           Ʝ           ʝ           Ꭓ           \\uab53      Ꞵ           ꞵ           Ꞷ           ꞷ           Ꞹ           ꞹ           Ꞻ           ꞻ           Ꞽ           ꞽ           "
  \o "Ꞿ           ꞿ           Ꟁ           ꟁ           Ꟃ           ꟃ           Ꞔ           ꞔ           Ʂ           ʂ           Ᶎ           ᶎ           Ꟈ           ꟈ           Ꟊ           ꟊ           Ɤ           \\u0264      Ꟍ           ꟍ           ꟎           ꟏           Ꟑ           ꟑ           ꟒           ꟓ           ꟔           ꟕ           Ꟗ           ꟗ           Ꟙ           ꟙ           "
  \o "Ꟛ           ꟛ           Ƛ           ƛ           Ꟶ           ꟶ           \\uff21      \\uff41      \\uff22      \\uff42      \\uff23      \\uff43      \\uff24      \\uff44      \\uff25      \\uff45      \\uff26      \\uff46      \\uff27      \\uff47      \\uff28      \\uff48      \\uff29      \\uff49      \\uff2a      \\uff4a      \\uff2b      \\uff4b      \\uff2c      \\uff4c      \\uff2d      \\uff4d      "
  \o "\\uff2e      \\uff4e      \\uff2f      \\uff4f      \\uff30      \\uff50      \\uff31      \\uff51      \\uff32      \\uff52      \\uff33      \\uff53      \\uff34      \\uff54      \\uff35      \\uff55      \\uff36      \\uff56      \\uff37      \\uff57      \\uff38      \\uff58      \\uff39      \\uff59      \\uff3a      \\uff5a      \\ud801\\udc00\\ud801\\udc28\\ud801\\udc01\\ud801\\udc29\\ud801\\udc02\\ud801\\udc2a"
  \o "\\ud801\\udc03\\ud801\\udc2b\\ud801\\udc04\\ud801\\udc2c\\ud801\\udc05\\ud801\\udc2d\\ud801\\udc06\\ud801\\udc2e\\ud801\\udc07\\ud801\\udc2f\\ud801\\udc08\\ud801\\udc30\\ud801\\udc09\\ud801\\udc31\\ud801\\udc0a\\ud801\\udc32\\ud801\\udc0b\\ud801\\udc33\\ud801\\udc0c\\ud801\\udc34\\ud801\\udc0d\\ud801\\udc35\\ud801\\udc0e\\ud801\\udc36\\ud801\\udc0f\\ud801\\udc37\\ud801\\udc10\\ud801\\udc38\\ud801\\udc11\\ud801\\udc39\\ud801\\udc12\\ud801\\udc3a"
  \o "\\ud801\\udc13\\ud801\\udc3b\\ud801\\udc14\\ud801\\udc3c\\ud801\\udc15\\ud801\\udc3d\\ud801\\udc16\\ud801\\udc3e\\ud801\\udc17\\ud801\\udc3f\\ud801\\udc18\\ud801\\udc40\\ud801\\udc19\\ud801\\udc41\\ud801\\udc1a\\ud801\\udc42\\ud801\\udc1b\\ud801\\udc43\\ud801\\udc1c\\ud801\\udc44\\ud801\\udc1d\\ud801\\udc45\\ud801\\udc1e\\ud801\\udc46\\ud801\\udc1f\\ud801\\udc47\\ud801\\udc20\\ud801\\udc48\\ud801\\udc21\\ud801\\udc49\\ud801\\udc22\\ud801\\udc4a"
  \o "\\ud801\\udc23\\ud801\\udc4b\\ud801\\udc24\\ud801\\udc4c\\ud801\\udc25\\ud801\\udc4d\\ud801\\udc26\\ud801\\udc4e\\ud801\\udc27\\ud801\\udc4f\\ud801\\udcb0\\ud801\\udcd8\\ud801\\udcb1\\ud801\\udcd9\\ud801\\udcb2\\ud801\\udcda\\ud801\\udcb3\\ud801\\udcdb\\ud801\\udcb4\\ud801\\udcdc\\ud801\\udcb5\\ud801\\udcdd\\ud801\\udcb6\\ud801\\udcde\\ud801\\udcb7\\ud801\\udcdf\\ud801\\udcb8\\ud801\\udce0\\ud801\\udcb9\\ud801\\udce1\\ud801\\udcba\\ud801\\udce2"
  \o "\\ud801\\udcbb\\ud801\\udce3\\ud801\\udcbc\\ud801\\udce4\\ud801\\udcbd\\ud801\\udce5\\ud801\\udcbe\\ud801\\udce6\\ud801\\udcbf\\ud801\\udce7\\ud801\\udcc0\\ud801\\udce8\\ud801\\udcc1\\ud801\\udce9\\ud801\\udcc2\\ud801\\udcea\\ud801\\udcc3\\ud801\\udceb\\ud801\\udcc4\\ud801\\udcec\\ud801\\udcc5\\ud801\\udced\\ud801\\udcc6\\ud801\\udcee\\ud801\\udcc7\\ud801\\udcef\\ud801\\udcc8\\ud801\\udcf0\\ud801\\udcc9\\ud801\\udcf1\\ud801\\udcca\\ud801\\udcf2"
  \o "\\ud801\\udccb\\ud801\\udcf3\\ud801\\udccc\\ud801\\udcf4\\ud801\\udccd\\ud801\\udcf5\\ud801\\udcce\\ud801\\udcf6\\ud801\\udccf\\ud801\\udcf7\\ud801\\udcd0\\ud801\\udcf8\\ud801\\udcd1\\ud801\\udcf9\\ud801\\udcd2\\ud801\\udcfa\\ud801\\udcd3\\ud801\\udcfb\\ud801\\udd70\\ud801\\udd97\\ud801\\udd71\\ud801\\udd98\\ud801\\udd72\\ud801\\udd99\\ud801\\udd73\\ud801\\udd9a\\ud801\\udd74\\ud801\\udd9b\\ud801\\udd75\\ud801\\udd9c\\ud801\\udd76\\ud801\\udd9d"
  \o "\\ud801\\udd77\\ud801\\udd9e\\ud801\\udd78\\ud801\\udd9f\\ud801\\udd79\\ud801\\udda0\\ud801\\udd7a\\ud801\\udda1\\ud801\\udd7c\\ud801\\udda3\\ud801\\udd7d\\ud801\\udda4\\ud801\\udd7e\\ud801\\udda5\\ud801\\udd7f\\ud801\\udda6\\ud801\\udd80\\ud801\\udda7\\ud801\\udd81\\ud801\\udda8\\ud801\\udd82\\ud801\\udda9\\ud801\\udd83\\ud801\\uddaa\\ud801\\udd84\\ud801\\uddab\\ud801\\udd85\\ud801\\uddac\\ud801\\udd86\\ud801\\uddad\\ud801\\udd87\\ud801\\uddae"
  \o "\\ud801\\udd88\\ud801\\uddaf\\ud801\\udd89\\ud801\\uddb0\\ud801\\udd8a\\ud801\\uddb1\\ud801\\udd8c\\ud801\\uddb3\\ud801\\udd8d\\ud801\\uddb4\\ud801\\udd8e\\ud801\\uddb5\\ud801\\udd8f\\ud801\\uddb6\\ud801\\udd90\\ud801\\uddb7\\ud801\\udd91\\ud801\\uddb8\\ud801\\udd92\\ud801\\uddb9\\ud801\\udd94\\ud801\\uddbb\\ud801\\udd95\\ud801\\uddbc\\ud803\\udc80\\ud803\\udcc0\\ud803\\udc81\\ud803\\udcc1\\ud803\\udc82\\ud803\\udcc2\\ud803\\udc83\\ud803\\udcc3"
  \o "\\ud803\\udc84\\ud803\\udcc4\\ud803\\udc85\\ud803\\udcc5\\ud803\\udc86\\ud803\\udcc6\\ud803\\udc87\\ud803\\udcc7\\ud803\\udc88\\ud803\\udcc8\\ud803\\udc89\\ud803\\udcc9\\ud803\\udc8a\\ud803\\udcca\\ud803\\udc8b\\ud803\\udccb\\ud803\\udc8c\\ud803\\udccc\\ud803\\udc8d\\ud803\\udccd\\ud803\\udc8e\\ud803\\udcce\\ud803\\udc8f\\ud803\\udccf\\ud803\\udc90\\ud803\\udcd0\\ud803\\udc91\\ud803\\udcd1\\ud803\\udc92\\ud803\\udcd2\\ud803\\udc93\\ud803\\udcd3"
  \o "\\ud803\\udc94\\ud803\\udcd4\\ud803\\udc95\\ud803\\udcd5\\ud803\\udc96\\ud803\\udcd6\\ud803\\udc97\\ud803\\udcd7\\ud803\\udc98\\ud803\\udcd8\\ud803\\udc99\\ud803\\udcd9\\ud803\\udc9a\\ud803\\udcda\\ud803\\udc9b\\ud803\\udcdb\\ud803\\udc9c\\ud803\\udcdc\\ud803\\udc9d\\ud803\\udcdd\\ud803\\udc9e\\ud803\\udcde\\ud803\\udc9f\\ud803\\udcdf\\ud803\\udca0\\ud803\\udce0\\ud803\\udca1\\ud803\\udce1\\ud803\\udca2\\ud803\\udce2\\ud803\\udca3\\ud803\\udce3"
  \o "\\ud803\\udca4\\ud803\\udce4\\ud803\\udca5\\ud803\\udce5\\ud803\\udca6\\ud803\\udce6\\ud803\\udca7\\ud803\\udce7\\ud803\\udca8\\ud803\\udce8\\ud803\\udca9\\ud803\\udce9\\ud803\\udcaa\\ud803\\udcea\\ud803\\udcab\\ud803\\udceb\\ud803\\udcac\\ud803\\udcec\\ud803\\udcad\\ud803\\udced\\ud803\\udcae\\ud803\\udcee\\ud803\\udcaf\\ud803\\udcef\\ud803\\udcb0\\ud803\\udcf0\\ud803\\udcb1\\ud803\\udcf1\\ud803\\udcb2\\ud803\\udcf2\\ud803\\udd50\\ud803\\udd70"
  \o "\\ud803\\udd51\\ud803\\udd71\\ud803\\udd52\\ud803\\udd72\\ud803\\udd53\\ud803\\udd73\\ud803\\udd54\\ud803\\udd74\\ud803\\udd55\\ud803\\udd75\\ud803\\udd56\\ud803\\udd76\\ud803\\udd57\\ud803\\udd77\\ud803\\udd58\\ud803\\udd78\\ud803\\udd59\\ud803\\udd79\\ud803\\udd5a\\ud803\\udd7a\\ud803\\udd5b\\ud803\\udd7b\\ud803\\udd5c\\ud803\\udd7c\\ud803\\udd5d\\ud803\\udd7d\\ud803\\udd5e\\ud803\\udd7e\\ud803\\udd5f\\ud803\\udd7f\\ud803\\udd60\\ud803\\udd80"
  \o "\\ud803\\udd61\\ud803\\udd81\\ud803\\udd62\\ud803\\udd82\\ud803\\udd63\\ud803\\udd83\\ud803\\udd64\\ud803\\udd84\\ud803\\udd65\\ud803\\udd85\\ud806\\udca0\\ud806\\udcc0\\ud806\\udca1\\ud806\\udcc1\\ud806\\udca2\\ud806\\udcc2\\ud806\\udca3\\ud806\\udcc3\\ud806\\udca4\\ud806\\udcc4\\ud806\\udca5\\ud806\\udcc5\\ud806\\udca6\\ud806\\udcc6\\ud806\\udca7\\ud806\\udcc7\\ud806\\udca8\\ud806\\udcc8\\ud806\\udca9\\ud806\\udcc9\\ud806\\udcaa\\ud806\\udcca"
  \o "\\ud806\\udcab\\ud806\\udccb\\ud806\\udcac\\ud806\\udccc\\ud806\\udcad\\ud806\\udccd\\ud806\\udcae\\ud806\\udcce\\ud806\\udcaf\\ud806\\udccf\\ud806\\udcb0\\ud806\\udcd0\\ud806\\udcb1\\ud806\\udcd1\\ud806\\udcb2\\ud806\\udcd2\\ud806\\udcb3\\ud806\\udcd3\\ud806\\udcb4\\ud806\\udcd4\\ud806\\udcb5\\ud806\\udcd5\\ud806\\udcb6\\ud806\\udcd6\\ud806\\udcb7\\ud806\\udcd7\\ud806\\udcb8\\ud806\\udcd8\\ud806\\udcb9\\ud806\\udcd9\\ud806\\udcba\\ud806\\udcda"
  \o "\\ud806\\udcbb\\ud806\\udcdb\\ud806\\udcbc\\ud806\\udcdc\\ud806\\udcbd\\ud806\\udcdd\\ud806\\udcbe\\ud806\\udcde\\ud806\\udcbf\\ud806\\udcdf\\ud81b\\ude40\\ud81b\\ude60\\ud81b\\ude41\\ud81b\\ude61\\ud81b\\ude42\\ud81b\\ude62\\ud81b\\ude43\\ud81b\\ude63\\ud81b\\ude44\\ud81b\\ude64\\ud81b\\ude45\\ud81b\\ude65\\ud81b\\ude46\\ud81b\\ude66\\ud81b\\ude47\\ud81b\\ude67\\ud81b\\ude48\\ud81b\\ude68\\ud81b\\ude49\\ud81b\\ude69\\ud81b\\ude4a\\ud81b\\ude6a"
  \o "\\ud81b\\ude4b\\ud81b\\ude6b\\ud81b\\ude4c\\ud81b\\ude6c\\ud81b\\ude4d\\ud81b\\ude6d\\ud81b\\ude4e\\ud81b\\ude6e\\ud81b\\ude4f\\ud81b\\ude6f\\ud81b\\ude50\\ud81b\\ude70\\ud81b\\ude51\\ud81b\\ude71\\ud81b\\ude52\\ud81b\\ude72\\ud81b\\ude53\\ud81b\\ude73\\ud81b\\ude54\\ud81b\\ude74\\ud81b\\ude55\\ud81b\\ude75\\ud81b\\ude56\\ud81b\\ude76\\ud81b\\ude57\\ud81b\\ude77\\ud81b\\ude58\\ud81b\\ude78\\ud81b\\ude59\\ud81b\\ude79\\ud81b\\ude5a\\ud81b\\ude7a"
  \o "\\ud81b\\ude5b\\ud81b\\ude7b\\ud81b\\ude5c\\ud81b\\ude7c\\ud81b\\ude5d\\ud81b\\ude7d\\ud81b\\ude5e\\ud81b\\ude7e\\ud81b\\ude5f\\ud81b\\ude7f\\ud81b\\udea0\\ud81b\\udebb\\ud81b\\udea1\\ud81b\\udebc\\ud81b\\udea2\\ud81b\\udebd\\ud81b\\udea3\\ud81b\\udebe\\ud81b\\udea4\\ud81b\\udebf\\ud81b\\udea5\\ud81b\\udec0\\ud81b\\udea6\\ud81b\\udec1\\ud81b\\udea7\\ud81b\\udec2\\ud81b\\udea8\\ud81b\\udec3\\ud81b\\udea9\\ud81b\\udec4\\ud81b\\udeaa\\ud81b\\udec5"
  \o "\\ud81b\\udeab\\ud81b\\udec6\\ud81b\\udeac\\ud81b\\udec7\\ud81b\\udead\\ud81b\\udec8\\ud81b\\udeae\\ud81b\\udec9\\ud81b\\udeaf\\ud81b\\udeca\\ud81b\\udeb0\\ud81b\\udecb\\ud81b\\udeb1\\ud81b\\udecc\\ud81b\\udeb2\\ud81b\\udecd\\ud81b\\udeb3\\ud81b\\udece\\ud81b\\udeb4\\ud81b\\udecf\\ud81b\\udeb5\\ud81b\\uded0\\ud81b\\udeb6\\ud81b\\uded1\\ud81b\\udeb7\\ud81b\\uded2\\ud81b\\udeb8\\ud81b\\uded3\\ud83a\\udd00\\ud83a\\udd22\\ud83a\\udd01\\ud83a\\udd23"
  \o "\\ud83a\\udd02\\ud83a\\udd24\\ud83a\\udd03\\ud83a\\udd25\\ud83a\\udd04\\ud83a\\udd26\\ud83a\\udd05\\ud83a\\udd27\\ud83a\\udd06\\ud83a\\udd28\\ud83a\\udd07\\ud83a\\udd29\\ud83a\\udd08\\ud83a\\udd2a\\ud83a\\udd09\\ud83a\\udd2b\\ud83a\\udd0a\\ud83a\\udd2c\\ud83a\\udd0b\\ud83a\\udd2d\\ud83a\\udd0c\\ud83a\\udd2e\\ud83a\\udd0d\\ud83a\\udd2f\\ud83a\\udd0e\\ud83a\\udd30\\ud83a\\udd0f\\ud83a\\udd31\\ud83a\\udd10\\ud83a\\udd32\\ud83a\\udd11\\ud83a\\udd33"
  \o "\\ud83a\\udd12\\ud83a\\udd34\\ud83a\\udd13\\ud83a\\udd35\\ud83a\\udd14\\ud83a\\udd36\\ud83a\\udd15\\ud83a\\udd37\\ud83a\\udd16\\ud83a\\udd38\\ud83a\\udd17\\ud83a\\udd39\\ud83a\\udd18\\ud83a\\udd3a\\ud83a\\udd19\\ud83a\\udd3b\\ud83a\\udd1a\\ud83a\\udd3c\\ud83a\\udd1b\\ud83a\\udd3d\\ud83a\\udd1c\\ud83a\\udd3e\\ud83a\\udd1d\\ud83a\\udd3f\\ud83a\\udd1e\\ud83a\\udd40\\ud83a\\udd1f\\ud83a\\udd41\\ud83a\\udd20\\ud83a\\udd42\\ud83a\\udd21\\ud83a\\udd43"

LowerCasePairs ==
  {<<Cells(LowerCaseTable, 4 * r - 3, 4 * r - 2),
     Cells(LowerCaseTable, 4 * r - 1, 4 * r)>> : r \in Rows(LowerCaseTable, 4)}

\* the code points String.prototype.toUpperCase changes, a row each: two cells
\* for the code point and three for what it becomes
UpperCaseTable ==
  "a           A                 b           B                 c           C                 d           D                 e           E                 f           F                 g           G                 h           H                 i           I                 j           J                 k           K                 l           L                 m           M                 n           N                 o           O                 p           P                 "
  \o "q           Q                 r           R                 s           S                 t           T                 u           U                 v           V                 w           W                 x           X                 y           Y                 z           Z                 µ           Μ                 ß           S     S           à           À                 á           Á                 â           Â                 ã           Ã                 "
  \o "ä           Ä                 å           Å                 æ           Æ                 ç           Ç                 è           È                 é           É                 ê           Ê                 ë           Ë                 ì           Ì                 í           Í                 î           Î                 ï           Ï                 ð           Ð                 ñ           Ñ                 ò           Ò                 ó           Ó                 "
  \o "ô           Ô                 õ           Õ                 ö           Ö                 ø           Ø                 ù           Ù                 ú           Ú                 û           Û                 ü           Ü                 ý           Ý                 þ           Þ                 ÿ           \\u0178            \\u0101      \\u0100            \\u0103      \\u0102            \\u0105      \\u0104            \\u0107      \\u0106            \\u0109      \\u0108            "
  \o "\\u010b      \\u010a            \\u010d      \\u010c            \\u010f      \\u010e            \\u0111      \\u0110            \\u0113      \\u0112            \\u0115      \\u0114            \\u0117      \\u0116            \\u0119      \\u0118            \\u011b      \\u011a            \\u011d      \\u011c            \\u011f      \\u011e            \\u0121      \\u0120            \\u0123      \\u0122            \\u0125      \\u0124            \\u0127      \\u0126            \\u0129      \\u0128            "
  \o "\\u012b      \\u012a            \\u012d      \\u012c            \\u012f      \\u012e            \\u0131      I                 \\u0133      \\u0132            \\u0135      \\u0134            \\u0137      \\u0136            \\u013a      \\u0139            \\u013c      \\u013b            \\u013e      \\u013d            \\u0140      \\u013f            \\u0142      \\u0141            \\u0144      \\u0143            \\u0146      \\u0145            \\u0148      \\u0147            \\u0149      ʼ     N           "
  \o "\\u014b      \\u014a            \\u014d      \\u014c            \\u014f      \\u014e            \\u0151      \\u0150            \\u0153      \\u0152            \\u0155      \\u0154            \\u0157      \\u0156            \\u0159      \\u0158            \\u015b      \\u015a            \\u015d      \\u015c            \\u015f      \\u015e            \\u0161      \\u0160            \\u0163      \\u0162            \\u0165      \\u0164            \\u0167      \\u0166            \\u0169      \\u0168            "
  \o "\\u016b      \\u016a            \\u016d      \\u016c            \\u016f      \\u016e            \\u0171      \\u0170            \\u0173      \\u0172            \\u0175      \\u0174            \\u0177      \\u0176            \\u017a      \\u0179            \\u017c      \\u017b            \\u017e      \\u017d            \\u017f      S                 ƀ           \\u0243            ƃ           Ƃ                 ƅ           Ƅ                 ƈ           Ƈ                 ƌ           Ƌ                 "
  \o "ƒ           Ƒ                 ƕ           Ƕ                 ƙ           Ƙ                 ƚ           \\u023d            ƛ           Ƛ                 ƞ           \\u0220            ơ           Ơ                 ƣ           Ƣ                 ƥ           Ƥ                 ƨ           Ƨ                 ƭ           Ƭ                 ư           Ư                 ƴ           Ƴ                 ƶ           Ƶ                 ƹ           Ƹ                 ƽ           Ƽ                 "
  \o "ƿ           Ƿ                 ǅ           Ǆ                 ǆ           Ǆ                 ǈ           Ǉ                 ǉ           Ǉ                 ǋ           Ǌ                 ǌ           Ǌ                 ǎ           Ǎ                 ǐ           Ǐ                 ǒ           Ǒ                 ǔ           Ǔ                 ǖ           Ǖ                 ǘ           Ǘ                 ǚ           Ǚ                 ǜ           Ǜ                 ǝ           Ǝ                 "
  \o "ǟ           Ǟ                 ǡ           Ǡ                 ǣ           Ǣ                 ǥ           Ǥ                 ǧ           Ǧ                 ǩ           Ǩ                 ǫ           Ǫ                 ǭ           Ǭ                 ǯ           Ǯ                 ǰ           J     \\u030c      ǲ           Ǳ                 ǳ           Ǳ                 ǵ           Ǵ                 ǹ           Ǹ                 ǻ           Ǻ                 ǽ           Ǽ                 "
  \o "ǿ           Ǿ                 \\u0201      \\u0200            \\u0203      \\u0202            \\u0205      \\u0204            \\u0207      \\u0206            \\u0209      \\u0208            \\u020b      \\u020a            \\u020d      \\u020c            \\u020f      \\u020e            \\u0211      \\u0210            \\u0213      \\u0212            \\u0215      \\u0214            \\u0217      \\u0216            \\u0219      \\u0218            \\u021b      \\u021a            \\u021d      \\u021c            "
  \o "\\u021f      \\u021e            \\u0223      \\u0222            \\u0225      \\u0224            \\u0227      \\u0226            \\u0229      \\u0228            \\u022b      \\u022a            \\u022d      \\u022c            \\u022f      \\u022e            \\u0231      \\u0230            \\u0233      \\u0232            \\u023c      \\u023b            \\u023f      \\u2c7e            \\u0240      \\u2c7f            \\u0242      \\u0241            \\u0247      \\u0246            \\u0249      \\u0248            "
  \o "\\u024b      \\u024a            \\u024d      \\u024c            \\u024f      \\u024e            \\u0250      \\u2c6f            \\u0251      \\u2c6d            \\u0252      \\u2c70            \\u0253      Ɓ                 \\u0254      Ɔ                 \\u0256      Ɖ                 \\u0257      Ɗ                 \\u0259      Ə                 \\u025b      Ɛ                 \\u025c      Ɜ                 \\u0260      Ɠ                 \\u0261      Ɡ                 \\u0263      Ɣ                 "
  \o "\\u0264      Ɤ                 \\u0265      Ɥ                 \\u0266      Ɦ                 \\u0268      Ɨ                 \\u0269      Ɩ                 \\u026a      Ɪ                 \\u026b      \\u2c62            \\u026c      Ɬ                 \\u026f      Ɯ                 \\u0271      \\u2c6e            \\u0272      Ɲ                 \\u0275      Ɵ                 \\u027d      \\u2c64            ʀ           Ʀ                 ʂ           Ʂ                 ʃ           Ʃ                 "
  \o "ʇ           Ʇ                 ʈ           Ʈ                 ʉ           \\u0244            ʊ           Ʊ                 ʋ           Ʋ                 ʌ           \\u0245            ʒ           Ʒ                 ʝ           Ʝ                 ʞ           Ʞ                 \\u0345      Ι                 \\u0371      \\u0370            \\u0373      \\u0372            \\u0377      \\u0376            \\u037b      Ͻ                 \\u037c      Ͼ                 \\u037d      Ͽ                 "
  \o "ΐ           Ι     \\u0308\\u0301ά           Ά                 έ           Έ                 ή           Ή                 ί           Ί                 ΰ           Υ     \\u0308\\u0301α           Α                 β           Β                 γ           Γ                 δ           Δ                 ε           Ε                 ζ           Ζ                 η           Η                 θ           Θ                 ι           Ι                 κ           Κ                 "
  \o "λ           Λ                 μ           Μ                 ν           Ν                 ξ           Ξ                 ο           Ο                 π           Π                 ρ           Ρ                 ς           Σ                 σ           Σ                 τ           Τ                 υ           Υ                 φ           Φ                 χ           Χ                 ψ           Ψ                 ω           Ω                 ϊ           Ϊ                 "
  \o "ϋ           Ϋ                 ό           Ό                 ύ           Ύ                 ώ           Ώ                 ϐ           Β                 ϑ           Θ                 ϕ           Φ                 ϖ           Π                 ϗ           Ϗ                 ϙ           Ϙ                 ϛ           Ϛ                 ϝ           Ϝ                 ϟ           Ϟ                 ϡ           Ϡ                 ϣ           Ϣ                 ϥ           Ϥ                 "
  \o "ϧ           Ϧ                 ϩ           Ϩ                 ϫ           Ϫ                 ϭ           Ϭ                 ϯ           Ϯ                 ϰ           Κ                 ϱ           Ρ                 ϲ           Ϲ                 ϳ           \\u037f            ϵ           Ε                 ϸ           Ϸ                 ϻ           Ϻ                 \\u0430      \\u0410            \\u0431      \\u0411            \\u0432      \\u0412            \\u0433      \\u0413            "
  \o "\\u0434      \\u0414            \\u0435      \\u0415            \\u0436      \\u0416            \\u0437      \\u0417            \\u0438      \\u0418            \\u0439      \\u0419            \\u043a      \\u041a            \\u043b      \\u041b            \\u043c      \\u041c            \\u043d      \\u041d            \\u043e      \\u041e            \\u043f      \\u041f            \\u0440      \\u0420            \\u0441      \\u0421            \\u0442      \\u0422            \\u0443      \\u0423            "
  \o "\\u0444      \\u0424            \\u0445      \\u0425            \\u0446      \\u0426            \\u0447      \\u0427            \\u0448      \\u0428            \\u0449      \\u0429            \\u044a      \\u042a            \\u044b      \\u042b            \\u044c      \\u042c            \\u044d      \\u042d            \\u044e      \\u042e            \\u044f      \\u042f            \\u0450      \\u0400            \\u0451      \\u0401            \\u0452      \\u0402            \\u0453      \\u0403            "
  \o "\\u0454      \\u0404            \\u0455      \\u0405            \\u0456      \\u0406            \\u0457      \\u0407            \\u0458      \\u0408            \\u0459      \\u0409            \\u045a      \\u040a            \\u045b      \\u040b            \\u045c      \\u040c            \\u045d      \\u040d            \\u045e      \\u040e            \\u045f      \\u040f            \\u0461      \\u0460            \\u0463      \\u0462            \\u0465      \\u0464            \\u0467      \\u0466            "
  \o "\\u0469      \\u0468            \\u046b      \\u046a            \\u046d      \\u046c            \\u046f      \\u046e            \\u0471      \\u0470            \\u0473      \\u0472            \\u0475      \\u0474            \\u0477      \\u0476            \\u0479      \\u0478            \\u047b      \\u047a            \\u047d      \\u047c            \\u047f      \\u047e            ҁ           Ҁ                 ҋ           Ҋ                 ҍ           Ҍ                 ҏ           Ҏ                 "
  \o "ґ           Ґ                 ғ           Ғ                 ҕ           Ҕ                 җ           Җ                 ҙ           Ҙ                 қ           Қ                 ҝ           Ҝ                 ҟ           Ҟ                 ҡ           Ҡ                 ң           Ң                 ҥ           Ҥ                 ҧ           Ҧ                 ҩ           Ҩ                 ҫ           Ҫ                 ҭ           Ҭ                 ү           Ү                 "
  \o "ұ           Ұ                 ҳ           Ҳ                 ҵ           Ҵ                 ҷ           Ҷ                 ҹ           Ҹ                 һ           Һ                 ҽ           Ҽ                 ҿ           Ҿ                 ӂ           Ӂ                 ӄ           Ӄ                 ӆ           Ӆ                 ӈ           Ӈ                 ӊ           Ӊ                 ӌ           Ӌ                 ӎ           Ӎ                 ӏ           Ӏ                 "
  \o "ӑ           Ӑ                 ӓ           Ӓ                 ӕ           Ӕ                 ӗ           Ӗ                 ә           Ә                 ӛ           Ӛ                 ӝ           Ӝ                 ӟ           Ӟ                 ӡ           Ӡ                 ӣ           Ӣ                 ӥ           Ӥ                 ӧ           Ӧ                 ө           Ө                 ӫ           Ӫ                 ӭ           Ӭ                 ӯ           Ӯ                 "
  \o "ӱ           Ӱ                 ӳ           Ӳ                 ӵ           Ӵ                 ӷ           Ӷ                 ӹ           Ӹ                 ӻ           Ӻ                 ӽ           Ӽ                 ӿ           Ӿ                 \\u0501      \\u0500            \\u0503      \\u0502            \\u0505      \\u0504            \\u0507      \\u0506            \\u0509      \\u0508            \\u050b      \\u050a            \\u050d      \\u050c            \\u050f      \\u050e            "
  \o "\\u0511      \\u0510            \\u0513      \\u0512            \\u0515      \\u0514            \\u0517      \\u0516            \\u0519      \\u0518            \\u051b      \\u051a            \\u051d      \\u051c            \\u051f      \\u051e            \\u0521      \\u0520            \\u0523      \\u0522            \\u0525      \\u0524            \\u0527      \\u0526            \\u0529      \\u0528            \\u052b      \\u052a            \\u052d      \\u052c            \\u052f      \\u052e            "
  \o "\\u0561      \\u0531            \\u0562      \\u0532            \\u0563      \\u0533            \\u0564      \\u0534            \\u0565      \\u0535            \\u0566      \\u0536            \\u0567      \\u0537            \\u0568      \\u0538            \\u0569      \\u0539            \\u056a      \\u053a            \\u056b      \\u053b            \\u056c      \\u053c            \\u056d      \\u053d            \\u056e      \\u053e            \\u056f      \\u053f            \\u0570      \\u0540            "
  \o "\\u0571      \\u0541            \\u0572      \\u0542            \\u0573      \\u0543            \\u0574      \\u0544            \\u0575      \\u0545            \\u0576      \\u0546            \\u0577      \\u0547            \\u0578      \\u0548            \\u0579      \\u0549            \\u057a      \\u054a            \\u057b      \\u054b            \\u057c      \\u054c            \\u057d      \\u054d            \\u057e      \\u054e            \\u057f      \\u054f            ր           \\u0550            "
  \o "ց           \\u0551            ւ           \\u0552            փ           \\u0553            ք           \\u0554            օ           \\u0555            ֆ           \\u0556            և           \\u0535\\u0552      ა           Ა                 ბ           Ბ                 გ           Გ                 დ           Დ                 ე           Ე                 ვ           Ვ                 ზ           Ზ                 თ           Თ                 ი           Ი                 "
  \o "კ           Კ                 ლ           Ლ                 მ           Მ                 ნ           Ნ                 ო           Ო                 პ           Პ                 ჟ           Ჟ                 რ           Რ                 ს           Ს                 ტ           Ტ                 უ           Უ                 ფ           Ფ                 ქ           Ქ                 ღ           Ღ                 ყ           Ყ                 შ           Შ                 "
  \o "ჩ           Ჩ                 ც           Ც                 ძ           Ძ                 წ           Წ                 ჭ           Ჭ                 ხ           Ხ                 ჯ           Ჯ                 ჰ           Ჰ                 ჱ           Ჱ                 ჲ           Ჲ                 ჳ           Ჳ                 ჴ           Ჴ                 ჵ           Ჵ                 ჶ           Ჶ                 ჷ           Ჷ                 ჸ           Ჸ                 "
  \o "ჹ           Ჹ                 ჺ           Ჺ                 ჽ           Ჽ                 ჾ           Ჾ                 ჿ           Ჿ                 ᏸ           Ᏸ                 ᏹ           Ᏹ                 ᏺ           Ᏺ                 ᏻ           Ᏻ                 ᏼ           Ᏼ                 ᏽ           Ᏽ                 ᲀ           \\u0412            ᲁ           \\u0414            ᲂ           \\u041e            ᲃ           \\u0421            ᲄ           \\u0422            "
  \o "ᲅ           \\u0422            ᲆ           \\u042a            ᲇ           \\u0462            ᲈ           \\ua64a            ᲊ           Ᲊ                 \\u1d79      \\ua77d            \\u1d7d      \\u2c63            ᶎ           Ᶎ                 \\u1e01      \\u1e00            \\u1e03      \\u1e02            \\u1e05      \\u1e04            \\u1e07      \\u1e06            \\u1e09      \\u1e08            \\u1e0b      \\u1e0a            \\u1e0d      \\u1e0c            \\u1e0f      \\u1e0e            "
  \o "\\u1e11      \\u1e10            \\u1e13      \\u1e12            \\u1e15      \\u1e14            \\u1e17      \\u1e16            \\u1e19      \\u1e18            \\u1e1b      \\u1e1a            \\u1e1d      \\u1e1c            \\u1e1f      \\u1e1e            \\u1e21      \\u1e20            \\u1e23      \\u1e22            \\u1e25      \\u1e24            \\u1e27      \\u1e26            \\u1e29      \\u1e28            \\u1e2b      \\u1e2a            \\u1e2d      \\u1e2c            \\u1e2f      \\u1e2e            "
  \o "\\u1e31      \\u1e30            \\u1e33      \\u1e32            \\u1e35      \\u1e34            \\u1e37      \\u1e36            \\u1e39      \\u1e38            \\u1e3b      \\u1e3a            \\u1e3d      \\u1e3c            \\u1e3f      \\u1e3e            \\u1e41      \\u1e40            \\u1e43      \\u1e42            \\u1e45      \\u1e44            \\u1e47      \\u1e46            \\u1e49      \\u1e48            \\u1e4b      \\u1e4a            \\u1e4d      \\u1e4c            \\u1e4f      \\u1e4e            "
  \o "\\u1e51      \\u1e50            \\u1e53      \\u1e52            \\u1e55      \\u1e54            \\u1e57      \\u1e56            \\u1e59      \\u1e58            \\u1e5b      \\u1e5a            \\u1e5d      \\u1e5c            \\u1e5f      \\u1e5e            \\u1e61      \\u1e60            \\u1e63      \\u1e62            \\u1e65      \\u1e64            \\u1e67      \\u1e66            \\u1e69      \\u1e68            \\u1e6b      \\u1e6a            \\u1e6d      \\u1e6c            \\u1e6f      \\u1e6e            "
  \o "\\u1e71      \\u1e70            \\u1e73      \\u1e72            \\u1e75      \\u1e74            \\u1e77      \\u1e76            \\u1e79      \\u1e78            \\u1e7b      \\u1e7a            \\u1e7d      \\u1e7c            \\u1e7f      \\u1e7e            ẁ           Ẁ                 ẃ           Ẃ                 ẅ           Ẅ                 ẇ           Ẇ                 ẉ           Ẉ                 ẋ           Ẋ                 ẍ           Ẍ                 ẏ           Ẏ                 "
  \o "ẑ           Ẑ                 ẓ           Ẓ                 ẕ           Ẕ                 ẖ           H     \\u0331      ẗ           T     \\u0308      ẘ           W     \\u030a      ẙ           Y     \\u030a      ẚ           A     ʾ           ẛ           \\u1e60            ạ           Ạ                 ả           Ả                 ấ           Ấ                 ầ           Ầ                 ẩ           Ẩ                 ẫ           Ẫ                 ậ           Ậ                 "
  \o "ắ           Ắ                 ằ           Ằ                 ẳ           Ẳ                 ẵ           Ẵ                 ặ           Ặ                 ẹ           Ẹ                 ẻ           Ẻ                 ẽ           Ẽ                 ế           Ế                 ề           Ề                 ể           Ể                 ễ           Ễ                 ệ           Ệ                 ỉ           Ỉ                 ị           Ị                 ọ           Ọ                 "
  \o "ỏ           Ỏ                 ố           Ố                 ồ           Ồ                 ổ           Ổ                 ỗ           Ỗ                 ộ           Ộ                 ớ           Ớ                 ờ           Ờ                 ở           Ở                 ỡ           Ỡ                 ợ           Ợ                 ụ           Ụ                 ủ           Ủ                 ứ           Ứ                 ừ           Ừ                 ử           Ử                 "
  \o "ữ           Ữ                 ự           Ự                 ỳ           Ỳ                 ỵ           Ỵ                 ỷ           Ỷ                 ỹ           Ỹ                 ỻ           Ỻ                 ỽ           Ỽ                 ỿ           Ỿ                 \\u1f00      \\u1f08            \\u1f01      \\u1f09            \\u1f02      \\u1f0a            \\u1f03      \\u1f0b            \\u1f04      \\u1f0c            \\u1f05      \\u1f0d            \\u1f06      \\u1f0e            "
  \o "\\u1f07      \\u1f0f            \\u1f10      \\u1f18            \\u1f11      \\u1f19            \\u1f12      \\u1f1a            \\u1f13      \\u1f1b            \\u1f14      \\u1f1c            \\u1f15      \\u1f1d            \\u1f20      \\u1f28            \\u1f21      \\u1f29            \\u1f22      \\u1f2a            \\u1f23      \\u1f2b            \\u1f24      \\u1f2c            \\u1f25      \\u1f2d            \\u1f26      \\u1f2e            \\u1f27      \\u1f2f            \\u1f30      \\u1f38            "
  \o "\\u1f31      \\u1f39            \\u1f32      \\u1f3a            \\u1f33      \\u1f3b            \\u1f34      \\u1f3c            \\u1f35      \\u1f3d            \\u1f36      \\u1f3e            \\u1f37      \\u1f3f            \\u1f40      \\u1f48            \\u1f41      \\u1f49            \\u1f42      \\u1f4a            \\u1f43      \\u1f4b            \\u1f44      \\u1f4c            \\u1f45      \\u1f4d            \\u1f50      Υ     \\u0313      \\u1f51      \\u1f59            \\u1f52      Υ     \\u0313\\u0300"
  \o "\\u1f53      \\u1f5b            \\u1f54      Υ     \\u0313\\u0301\\u1f55      \\u1f5d            \\u1f56      Υ     \\u0313\\u0342\\u1f57      \\u1f5f            \\u1f60      \\u1f68            \\u1f61      \\u1f69            \\u1f62      \\u1f6a            \\u1f63      \\u1f6b            \\u1f64      \\u1f6c            \\u1f65      \\u1f6d            \\u1f66      \\u1f6e            \\u1f67      \\u1f6f            \\u1f70      Ὰ                 \\u1f71      Ά                 \\u1f72      Ὲ                 "
  \o "\\u1f73      Έ                 \\u1f74      Ὴ                 \\u1f75      Ή                 \\u1f76      Ὶ                 \\u1f77      Ί                 \\u1f78      Ὸ                 \\u1f79      Ό                 \\u1f7a      Ὺ                 \\u1f7b      Ύ                 \\u1f7c      Ὼ                 \\u1f7d      Ώ                 ᾀ           \\u1f08Ι           ᾁ           \\u1f09Ι           ᾂ           \\u1f0aΙ           ᾃ           \\u1f0bΙ           ᾄ           \\u1f0cΙ           "
  \o "ᾅ           \\u1f0dΙ           ᾆ           \\u1f0eΙ           ᾇ           \\u1f0fΙ           ᾈ           \\u1f08Ι           ᾉ           \\u1f09Ι           ᾊ           \\u1f0aΙ           ᾋ           \\u1f0bΙ           ᾌ           \\u1f0cΙ           ᾍ           \\u1f0dΙ           ᾎ           \\u1f0eΙ           ᾏ           \\u1f0fΙ           ᾐ           \\u1f28Ι           ᾑ           \\u1f29Ι           ᾒ           \\u1f2aΙ           ᾓ           \\u1f2bΙ           ᾔ           \\u1f2cΙ           "
  \o "ᾕ           \\u1f2dΙ           ᾖ           \\u1f2eΙ           ᾗ           \\u1f2fΙ           ᾘ           \\u1f28Ι           ᾙ           \\u1f29Ι           ᾚ           \\u1f2aΙ           ᾛ           \\u1f2bΙ           ᾜ           \\u1f2cΙ           ᾝ           \\u1f2dΙ           ᾞ           \\u1f2eΙ           ᾟ           \\u1f2fΙ           ᾠ           \\u1f68Ι           ᾡ           \\u1f69Ι           ᾢ           \\u1f6aΙ           ᾣ           \\u1f6bΙ           ᾤ           \\u1f6cΙ           "
  \o "ᾥ           \\u1f6dΙ           ᾦ           \\u1f6eΙ           ᾧ           \\u1f6fΙ           ᾨ           \\u1f68Ι           ᾩ           \\u1f69Ι           ᾪ           \\u1f6aΙ           ᾫ           \\u1f6bΙ           ᾬ           \\u1f6cΙ           ᾭ           \\u1f6dΙ           ᾮ           \\u1f6eΙ           ᾯ           \\u1f6fΙ           ᾰ           Ᾰ                 ᾱ           Ᾱ                 ᾲ           Ὰ     Ι           ᾳ           Α     Ι           ᾴ           Ά     Ι           "
  \o "ᾶ           Α     \\u0342      ᾷ           Α     \\u0342Ι     ᾼ           Α     Ι           ι           Ι                 ῂ           Ὴ     Ι           ῃ           Η     Ι           ῄ           Ή     Ι           ῆ           Η     \\u0342      ῇ           Η     \\u0342Ι     ῌ           Η     Ι           ῐ           Ῐ                 ῑ           Ῑ                 ῒ           Ι     \\u0308\\u0300ΐ           Ι     \\u0308\\u0301ῖ           Ι     \\u0342      ῗ           Ι     \\u0308\\u0342"
  \o "ῠ           Ῠ                 ῡ           Ῡ                 ῢ           Υ     \\u0308\\u0300ΰ           Υ     \\u0308\\u0301ῤ           Ρ     \\u0313      ῥ           Ῥ                 ῦ           Υ     \\u0342      ῧ           Υ     \\u0308\\u0342ῲ           Ὼ     Ι           ῳ           Ω     Ι           ῴ           Ώ     Ι           ῶ           Ω     \\u0342      ῷ           Ω     \\u0342Ι     ῼ           Ω     Ι           \\u214e      \\u2132            \\u2170      \\u2160            "
  \o "\\u2171      \\u2161            \\u2172      \\u2162            \\u2173      \\u2163            \\u2174      \\u2164            \\u2175      \\u2165            \\u2176      \\u2166            \\u2177      \\u2167            \\u2178      \\u2168            \\u2179      \\u2169            \\u217a      \\u216a            \\u217b      \\u216b            \\u217c      \\u216c            \\u217d      \\u216d            \\u217e      \\u216e            \\u217f      \\u216f            ↄ           Ↄ                 "
  \o "ⓐ           Ⓐ                 ⓑ           Ⓑ                 ⓒ           Ⓒ                 ⓓ           Ⓓ                 ⓔ           Ⓔ                 ⓕ           Ⓕ                 ⓖ           Ⓖ                 ⓗ           Ⓗ                 ⓘ           Ⓘ                 ⓙ           Ⓙ                 ⓚ           Ⓚ                 ⓛ           Ⓛ                 ⓜ           Ⓜ                 ⓝ           Ⓝ                 ⓞ           Ⓞ                 ⓟ           Ⓟ                 "
  \o "ⓠ           Ⓠ                 ⓡ           Ⓡ                 ⓢ           Ⓢ                 ⓣ           Ⓣ                 ⓤ           Ⓤ                 ⓥ           Ⓥ                 ⓦ           Ⓦ                 ⓧ           Ⓧ                 ⓨ           Ⓨ                 ⓩ           Ⓩ                 \\u2c30      \\u2c00            \\u2c31      \\u2c01            \\u2c32      \\u2c02            \\u2c33      \\u2c03            \\u2c34      \\u2c04            \\u2c35      \\u2c05            "
  \o "\\u2c36      \\u2c06            \\u2c37      \\u2c07            \\u2c38      \\u2c08            \\u2c39      \\u2c09            \\u2c3a      \\u2c0a            \\u2c3b      \\u2c0b            \\u2c3c      \\u2c0c            \\u2c3d      \\u2c0d            \\u2c3e      \\u2c0e            \\u2c3f      \\u2c0f            \\u2c40      \\u2c10            \\u2c41      \\u2c11            \\u2c42      \\u2c12            \\u2c43      \\u2c13            \\u2c44      \\u2c14            \\u2c45      \\u2c15            "
  \o "\\u2c46      \\u2c16            \\u2c47      \\u2c17            \\u2c48      \\u2c18            \\u2c49      \\u2c19            \\u2c4a      \\u2c1a            \\u2c4b      \\u2c1b            \\u2c4c      \\u2c1c            \\u2c4d      \\u2c1d            \\u2c4e      \\u2c1e            \\u2c4f      \\u2c1f            \\u2c50      \\u2c20            \\u2c51      \\u2c21            \\u2c52      \\u2c22            \\u2c53      \\u2c23            \\u2c54      \\u2c24            \\u2c55      \\u2c25            "
  \o "\\u2c56      \\u2c26            \\u2c57      \\u2c27            \\u2c58      \\u2c28            \\u2c59      \\u2c29            \\u2c5a      \\u2c2a            \\u2c5b      \\u2c2b            \\u2c5c      \\u2c2c            \\u2c5d      \\u2c2d            \\u2c5e      \\u2c2e            \\u2c5f      \\u2c2f            \\u2c61      \\u2c60            \\u2c65      \\u023a            \\u2c66      \\u023e            \\u2c68      \\u2c67            \\u2c6a      \\u2c69            \\u2c6c      \\u2c6b            "
  \o "\\u2c73      \\u2c72            \\u2c76      \\u2c75            ⲁ           Ⲁ                 ⲃ           Ⲃ                 ⲅ           Ⲅ                 ⲇ           Ⲇ                 ⲉ           Ⲉ                 ⲋ           Ⲋ                 ⲍ           Ⲍ                 ⲏ           Ⲏ                 ⲑ           Ⲑ                 ⲓ           Ⲓ                 ⲕ           Ⲕ                 ⲗ           Ⲗ                 ⲙ           Ⲙ                 ⲛ           Ⲛ                 "
  \o "ⲝ           Ⲝ                 ⲟ           Ⲟ                 ⲡ           Ⲡ                 ⲣ           Ⲣ                 ⲥ           Ⲥ                 ⲧ           Ⲧ                 ⲩ           Ⲩ                 ⲫ           Ⲫ                 ⲭ           Ⲭ                 ⲯ           Ⲯ                 ⲱ           Ⲱ                 ⲳ           Ⲳ                 ⲵ           Ⲵ                 ⲷ           Ⲷ                 ⲹ           Ⲹ                 ⲻ           Ⲻ                 "
  \o "ⲽ           Ⲽ                 ⲿ           Ⲿ                 ⳁ           Ⳁ                 ⳃ           Ⳃ                 ⳅ           Ⳅ                 ⳇ           Ⳇ                 ⳉ           Ⳉ                 ⳋ           Ⳋ                 ⳍ           Ⳍ                 ⳏ           Ⳏ                 ⳑ           Ⳑ                 ⳓ           Ⳓ                 ⳕ           Ⳕ                 ⳗ           Ⳗ                 ⳙ           Ⳙ                 ⳛ           Ⳛ                 "
  \o "ⳝ           Ⳝ                 ⳟ           Ⳟ                 ⳡ           Ⳡ                 ⳣ           Ⳣ                 ⳬ           Ⳬ                 ⳮ           Ⳮ                 ⳳ           Ⳳ                 \\u2d00      Ⴀ                 \\u2d01      Ⴁ                 \\u2d02      Ⴂ                 \\u2d03      Ⴃ                 \\u2d04      Ⴄ                 \\u2d05      Ⴅ                 \\u2d06      Ⴆ                 \\u2d07      Ⴇ                 \\u2d08      Ⴈ                 "
  \o "\\u2d09      Ⴉ                 \\u2d0a      Ⴊ                 \\u2d0b      Ⴋ                 \\u2d0c      Ⴌ                 \\u2d0d      Ⴍ                 \\u2d0e      Ⴎ                 \\u2d0f      Ⴏ                 \\u2d10      Ⴐ                 \\u2d11      Ⴑ                 \\u2d12      Ⴒ                 \\u2d13      Ⴓ                 \\u2d14      Ⴔ                 \\u2d15      Ⴕ                 \\u2d16      Ⴖ                 \\u2d17      Ⴗ                 \\u2d18      Ⴘ                 "
  \o "\\u2d19      Ⴙ                 \\u2d1a      Ⴚ                 \\u2d1b      Ⴛ                 \\u2d1c      Ⴜ                 \\u2d1d      Ⴝ                 \\u2d1e      Ⴞ                 \\u2d1f      Ⴟ                 \\u2d20      Ⴠ                 \\u2d21      Ⴡ                 \\u2d22      Ⴢ                 \\u2d23      Ⴣ                 \\u2d24      Ⴤ                 \\u2d25      Ⴥ                 \\u2d27      Ⴧ                 \\u2d2d      Ⴭ                 \\ua641      \\ua640            "
  \o "\\ua643      \\ua642            \\ua645      \\ua644            \\ua647      \\ua646            \\ua649      \\ua648            \\ua64b      \\ua64a            \\ua64d      \\ua64c            \\ua64f      \\ua64e            \\ua651      \\ua650            \\ua653      \\ua652            \\ua655      \\ua654            \\ua657      \\ua656            \\ua659      \\ua658            \\ua65b      \\ua65a            \\ua65d      \\ua65c            \\ua65f      \\ua65e            \\ua661      \\ua660            "
  \o "\\ua663      \\ua662            \\ua665      \\ua664            \\ua667      \\ua666            \\ua669      \\ua668            \\ua66b      \\ua66a            \\ua66d      \\ua66c            ꚁ           Ꚁ                 ꚃ           Ꚃ                 ꚅ           Ꚅ                 ꚇ           Ꚇ                 ꚉ           Ꚉ                 ꚋ           Ꚋ                 ꚍ           Ꚍ                 ꚏ           Ꚏ                 ꚑ           Ꚑ                 ꚓ           Ꚓ                 "
  \o "ꚕ           Ꚕ                 ꚗ           Ꚗ                 ꚙ           Ꚙ                 ꚛ           Ꚛ                 \\ua723      \\ua722            \\ua725      \\ua724            \\ua727      \\ua726            \\ua729      \\ua728            \\ua72b      \\ua72a            \\ua72d      \\ua72c            \\ua72f      \\ua72e            \\ua733      \\ua732            \\ua735      \\ua734            \\ua737      \\ua736            \\ua739      \\ua738            \\ua73b      \\ua73a            "
  \o "\\ua73d      \\ua73c            \\ua73f      \\ua73e            \\ua741      \\ua740            \\ua743      \\ua742            \\ua745      \\ua744            \\ua747      \\ua746            \\ua749      \\ua748            \\ua74b      \\ua74a            \\ua74d      \\ua74c            \\ua74f      \\ua74e            \\ua751      \\ua750            \\ua753      \\ua752            \\ua755      \\ua754            \\ua757      \\ua756            \\ua759      \\ua758            \\ua75b      \\ua75a            "
  \o "\\ua75d      \\ua75c            \\ua75f      \\ua75e            \\ua761      \\ua760            \\ua763      \\ua762            \\ua765      \\ua764            \\ua767      \\ua766            \\ua769      \\ua768            \\ua76b      \\ua76a            \\ua76d      \\ua76c            \\ua76f      \\ua76e            \\ua77a      \\ua779            \\ua77c      \\ua77b            \\ua77f      \\ua77e            ꞁ           Ꞁ                 ꞃ           Ꞃ                 ꞅ           Ꞅ                 "
  \o "ꞇ           Ꞇ                 ꞌ           Ꞌ                 ꞑ           Ꞑ                 ꞓ           Ꞓ                 ꞔ           Ꞔ                 ꞗ           Ꞗ                 ꞙ           Ꞙ                 ꞛ           Ꞛ                 ꞝ           Ꞝ                 ꞟ           Ꞟ                 ꞡ           Ꞡ                 ꞣ           Ꞣ                 ꞥ           Ꞥ                 ꞧ           Ꞧ                 ꞩ           Ꞩ                 ꞵ           Ꞵ                 "
  \o "ꞷ           Ꞷ                 ꞹ           Ꞹ                 ꞻ           Ꞻ                 ꞽ           Ꞽ                 ꞿ           Ꞿ                 ꟁ           Ꟁ                 ꟃ           Ꟃ                 ꟈ           Ꟈ                 ꟊ           Ꟊ                 ꟍ           Ꟍ                 ꟏           ꟎                 ꟑ           Ꟑ                 ꟓ           ꟒                 ꟕ           ꟔                 ꟗ           Ꟗ                 ꟙ           Ꟙ                 "
  \o "ꟛ           Ꟛ                 ꟶ           Ꟶ                 \\uab53      Ꭓ                 \\uab70      Ꭰ                 \\uab71      Ꭱ                 \\uab72      Ꭲ                 \\uab73      Ꭳ                 \\uab74      Ꭴ                 \\uab75      Ꭵ                 \\uab76      Ꭶ                 \\uab77      Ꭷ                 \\uab78      Ꭸ                 \\uab79      Ꭹ                 \\uab7a      Ꭺ                 \\uab7b      Ꭻ                 \\uab7c      Ꭼ                 "
  \o "\\uab7d      Ꭽ                 \\uab7e      Ꭾ                 \\uab7f      Ꭿ                 ꮀ           Ꮀ                 ꮁ           Ꮁ                 ꮂ           Ꮂ                 ꮃ           Ꮃ                 ꮄ           Ꮄ                 ꮅ           Ꮅ                 ꮆ           Ꮆ                 ꮇ           Ꮇ                 ꮈ           Ꮈ                 ꮉ           Ꮉ                 ꮊ           Ꮊ                 ꮋ           Ꮋ                 ꮌ           Ꮌ                 "
  \o "ꮍ           Ꮍ                 ꮎ           Ꮎ                 ꮏ           Ꮏ                 ꮐ           Ꮐ                 ꮑ           Ꮑ                 ꮒ           Ꮒ                 ꮓ           Ꮓ                 ꮔ           Ꮔ                 ꮕ           Ꮕ                 ꮖ           Ꮖ                 ꮗ           Ꮗ                 ꮘ           Ꮘ                 ꮙ           Ꮙ                 ꮚ           Ꮚ                 ꮛ           Ꮛ                 ꮜ           Ꮜ                 "
  \o "ꮝ           Ꮝ                 ꮞ           Ꮞ                 ꮟ           Ꮟ                 ꮠ           Ꮠ                 ꮡ           Ꮡ                 ꮢ           Ꮢ                 ꮣ           Ꮣ                 ꮤ           Ꮤ                 ꮥ           Ꮥ                 ꮦ           Ꮦ                 ꮧ           Ꮧ                 ꮨ           Ꮨ                 ꮩ           Ꮩ                 ꮪ           Ꮪ                 ꮫ           Ꮫ                 ꮬ           Ꮬ                 "
  \o "ꮭ           Ꮭ                 ꮮ           Ꮮ                 ꮯ           Ꮯ                 ꮰ           Ꮰ                 ꮱ           Ꮱ                 ꮲ           Ꮲ                 ꮳ           Ꮳ                 ꮴ           Ꮴ                 ꮵ           Ꮵ                 ꮶ           Ꮶ                 ꮷ           Ꮷ                 ꮸ           Ꮸ                 ꮹ           Ꮹ                 ꮺ           Ꮺ                 ꮻ           Ꮻ                 ꮼ           Ꮼ                 "
  \o "ꮽ           Ꮽ                 ꮾ           Ꮾ                 ꮿ           Ꮿ                 \\ufb00      F     F           \\ufb01      F     I           \\ufb02      F     L           \\ufb03      F     F     I     \\ufb04      F     F     L     \\ufb05      S     T           \\ufb06      S     T           \\ufb13      \\u0544\\u0546      \\ufb14      \\u0544\\u0535      \\ufb15      \\u0544\\u053b      \\ufb16      \\u054e\\u0546      \\ufb17      \\u0544\\u053d      \\uff41      \\uff21            "
  \o "\\uff42      \\uff22            \\uff43      \\uff23            \\uff44      \\uff24            \\uff45      \\uff25            \\uff46      \\uff26            \\uff47      \\uff27            \\uff48      \\uff28            \\uff49      \\uff29            \\uff4a      \\uff2a            \\uff4b      \\uff2b            \\uff4c      \\uff2c            \\uff4d      \\uff2d            \\uff4e      \\uff2e            \\uff4f      \\uff2f            \\uff50      \\uff30            \\uff51      \\uff31            "
  \o "\\uff52      \\uff32            \\uff53      \\uff33            \\uff54      \\uff34            \\uff55      \\uff35            \\uff56      \\uff36            \\uff57      \\uff37            \\uff58      \\uff38            \\uff59      \\uff39            \\uff5a      \\uff3a            \\ud801\\udc28\\ud801\\udc00      \\ud801\\udc29\\ud801\\udc01      \\ud801\\udc2a\\ud801\\udc02      \\ud801\\udc2b\\ud801\\udc03      \\ud801\\udc2c\\ud801\\udc04      \\ud801\\udc2d\\ud801\\udc05      \\ud801\\udc2e\\ud801\\udc06      "
  \o "\\ud801\\udc2f\\ud801\\udc07      \\ud801\\udc30\\ud801\\udc08      \\ud801\\udc31\\ud801\\udc09      \\ud801\\udc32\\ud801\\udc0a      \\ud801\\udc33\\ud801\\udc0b      \\ud801\\udc34\\ud801\\udc0c      \\ud801\\udc35\\ud801\\udc0d      \\ud801\\udc36\\ud801\\udc0e      \\ud801\\udc37\\ud801\\udc0f      \\ud801\\udc38\\ud801\\udc10      \\ud801\\udc39\\ud801\\udc11      \\ud801\\udc3a\\ud801\\udc12      \\ud801\\udc3b\\ud801\\udc13      \\ud801\\udc3c\\ud801\\udc14      \\ud801\\udc3d\\ud801\\udc15      \\ud801\\udc3e\\ud801\\udc16      "
  \o "\\ud801\\udc3f\\ud801\\udc17      \\ud801\\udc40\\ud801\\udc18      \\ud801\\udc41\\ud801\\udc19      \\ud801\\udc42\\ud801\\udc1a      \\ud801\\udc43\\ud801\\udc1b      \\ud801\\udc44\\ud801\\udc1c      \\ud801\\udc45\\ud801\\udc1d      \\ud801\\udc46\\ud801\\udc1e      \\ud801\\udc47\\ud801\\udc1f      \\ud801\\udc48\\ud801\\udc20      \\ud801\\udc49\\ud801\\udc21      \\ud801\\udc4a\\ud801\\udc22      \\ud801\\udc4b\\ud801\\udc23      \\ud801\\udc4c\\ud801\\udc24      \\ud801\\udc4d\\ud801\\udc25      \\ud801\\udc4e\\ud801\\udc26      "
  \o "\\ud801\\udc4f\\ud801\\udc27      \\ud801\\udcd8\\ud801\\udcb0      \\ud801\\udcd9\\ud801\\udcb1      \\ud801\\udcda\\ud801\\udcb2      \\ud801\\udcdb\\ud801\\udcb3      \\ud801\\udcdc\\ud801\\udcb4      \\ud801\\udcdd\\ud801\\udcb5      \\ud801\\udcde\\ud801\\udcb6      \\ud801\\udcdf\\ud801\\udcb7      \\ud801\\udce0\\ud801\\udcb8      \\ud801\\udce1\\ud801\\udcb9      \\ud801\\udce2\\ud801\\udcba      \\ud801\\udce3\\ud801\\udcbb      \\ud801\\udce4\\ud801\\udcbc      \\ud801\\udce5\\ud801\\udcbd      \\ud801\\udce6\\ud801\\udcbe      "
  \o "\\ud801\\udce7\\ud801\\udcbf      \\ud801\\udce8\\ud801\\udcc0      \\ud801\\udce9\\ud801\\udcc1      \\ud801\\udcea\\ud801\\udcc2      \\ud801\\udceb\\ud801\\udcc3      \\ud801\\udcec\\ud801\\udcc4      \\ud801\\udced\\ud801\\udcc5      \\ud801\\udcee\\ud801\\udcc6      \\ud801\\udcef\\ud801\\udcc7      \\ud801\\udcf0\\ud801\\udcc8      \\ud801\\udcf1\\ud801\\udcc9      \\ud801\\udcf2\\ud801\\udcca      \\ud801\\udcf3\\ud801\\udccb      \\ud801\\udcf4\\ud801\\udccc      \\ud801\\udcf5\\ud801\\udccd      \\ud801\\udcf6\\ud801\\udcce      "
  \o "\\ud801\\udcf7\\ud801\\udccf      \\ud801\\udcf8\\ud801\\udcd0      \\ud801\\udcf9\\ud801\\udcd1      \\ud801\\udcfa\\ud801\\udcd2      \\ud801\\udcfb\\ud801\\udcd3      \\ud801\\udd97\\ud801\\udd70      \\ud801\\udd98\\ud801\\udd71      \\ud801\\udd99\\ud801\\udd72      \\ud801\\udd9a\\ud801\\udd73      \\ud801\\udd9b\\ud801\\udd74      \\ud801\\udd9c\\ud801\\udd75      \\ud801\\udd9d\\ud801\\udd76      \\ud801\\udd9e\\ud801\\udd77      \\ud801\\udd9f\\ud801\\udd78      \\ud801\\udda0\\ud801\\udd79      \\ud801\\udda1\\ud801\\udd7a      "
  \o "\\ud801\\udda3\\ud801\\udd7c      \\ud801\\udda4\\ud801\\udd7d      \\ud801\\udda5\\ud801\\udd7e      \\ud801\\udda6\\ud801\\udd7f      \\ud801\\udda7\\ud801\\udd80      \\ud801\\udda8\\ud801\\udd81      \\ud801\\udda9\\ud801\\udd82      \\ud801\\uddaa\\ud801\\udd83      \\ud801\\uddab\\ud801\\udd84      \\ud801\\uddac\\ud801\\udd85      \\ud801\\uddad\\ud801\\udd86      \\ud801\\uddae\\ud801\\udd87      \\ud801\\uddaf\\ud801\\udd88      \\ud801\\uddb0\\ud801\\udd89      \\ud801\\uddb1\\ud801\\udd8a      \\ud801\\uddb3\\ud801\\udd8c      "
  \o "\\ud801\\uddb4\\ud801\\udd8d      \\ud801\\uddb5\\ud801\\udd8e      \\ud801\\uddb6\\ud801\\udd8f      \\ud801\\uddb7\\ud801\\udd90      \\ud801\\uddb8\\ud801\\udd91      \\ud801\\uddb9\\ud801\\udd92      \\ud801\\uddbb\\ud801\\udd94      \\ud801\\uddbc\\ud801\\udd95      \\ud803\\udcc0\\ud803\\udc80      \\ud803\\udcc1\\ud803\\udc81      \\ud803\\udcc2\\ud803\\udc82      \\ud803\\udcc3\\ud803\\udc83      \\ud803\\udcc4\\ud803\\udc84      \\ud803\\udcc5\\ud803\\udc85      \\ud803\\udcc6\\ud803\\udc86      \\ud803\\udcc7\\ud803\\udc87      "
  \o "\\ud803\\udcc8\\ud803\\udc88      \\ud803\\udcc9\\ud803\\udc89      \\ud803\\udcca\\ud803\\udc8a      \\ud803\\udccb\\ud803\\udc8b      \\ud803\\udccc\\ud803\\udc8c      \\ud803\\udccd\\ud803\\udc8d      \\ud803\\udcce\\ud803\\udc8e      \\ud803\\udccf\\ud803\\udc8f      \\ud803\\udcd0\\ud803\\udc90      \\ud803\\udcd1\\ud803\\udc91      \\ud803\\udcd2\\ud803\\udc92      \\ud803\\udcd3\\ud803\\udc93      \\ud803\\udcd4\\ud803\\udc94      \\ud803\\udcd5\\ud803\\udc95      \\ud803\\udcd6\\ud803\\udc96      \\ud803\\udcd7\\ud803\\udc97      "
  \o "\\ud803\\udcd8\\ud803\\udc98      \\ud803\\udcd9\\ud803\\udc99      \\ud803\\udcda\\ud803\\udc9a      \\ud803\\udcdb\\ud803\\udc9b      \\ud803\\udcdc\\ud803\\udc9c      \\ud803\\udcdd\\ud803\\udc9d      \\ud803\\udcde\\ud803\\udc9e      \\ud803\\udcdf\\ud803\\udc9f      \\ud803\\udce0\\ud803\\udca0      \\ud803\\udce1\\ud803\\udca1      \\ud803\\udce2\\ud803\\udca2      \\ud803\\udce3\\ud803\\udca3      \\ud803\\udce4\\ud803\\udca4      \\ud803\\udce5\\ud803\\udca5      \\ud803\\udce6\\ud803\\udca6      \\ud803\\udce7\\ud803\\udca7      "
  \o "\\ud803\\udce8\\ud803\\udca8      \\ud803\\udce9\\ud803\\udca9      \\ud803\\udcea\\ud803\\udcaa      \\ud803\\udceb\\ud803\\udcab      \\ud803\\udcec\\ud803\\udcac      \\ud803\\udced\\ud803\\udcad      \\ud803\\udcee\\ud803\\udcae      \\ud803\\udcef\\ud803\\udcaf      \\ud803\\udcf0\\ud803\\udcb0      \\ud803\\udcf1\\ud803\\udcb1      \\ud803\\udcf2\\ud803\\udcb2      \\ud803\\udd70\\ud803\\udd50      \\ud803\\udd71\\ud803\\udd51      \\ud803\\udd72\\ud803\\udd52      \\ud803\\udd73\\ud803\\udd53      \\ud803\\udd74\\ud803\\udd54      "
  \o "\\ud803\\udd75\\ud803\\udd55      \\ud803\\udd76\\ud803\\udd56      \\ud803\\udd77\\ud803\\udd57      \\ud803\\udd78\\ud803\\udd58      \\ud803\\udd79\\ud803\\udd59      \\ud803\\udd7a\\ud803\\udd5a      \\ud803\\udd7b\\ud803\\udd5b      \\ud803\\udd7c\\ud803\\udd5c      \\ud803\\udd7d\\ud803\\udd5d      \\ud803\\udd7e\\ud803\\udd5e      \\ud803\\udd7f\\ud803\\udd5f      \\ud803\\udd80\\ud803\\udd60      \\ud803\\udd81\\ud803\\udd61      \\ud803\\udd82\\ud803\\udd62      \\ud803\\udd83\\ud803\\udd63      \\ud803\\udd84\\ud803\\udd64      "
  \o "\\ud803\\udd85\\ud803\\udd65      \\ud806\\udcc0\\ud806\\udca0      \\ud806\\udcc1\\ud806\\udca1      \\ud806\\udcc2\\ud806\\udca2      \\ud806\\udcc3\\ud806\\udca3      \\ud806\\udcc4\\ud806\\udca4      \\ud806\\udcc5\\ud806\\udca5      \\ud806\\udcc6\\ud806\\udca6      \\ud806\\udcc7\\ud806\\udca7      \\ud806\\udcc8\\ud806\\udca8      \\ud806\\udcc9\\ud806\\udca9      \\ud806\\udcca\\ud806\\udcaa      \\ud806\\udccb\\ud806\\udcab      \\ud806\\udccc\\ud806\\udcac      \\ud806\\udccd\\ud806\\udcad      \\ud806\\udcce\\ud806\\udcae      "
  \o "\\ud806\\udccf\\ud806\\udcaf      \\ud806\\udcd0\\ud806\\udcb0      \\ud806\\udcd1\\ud806\\udcb1      \\ud806\\udcd2\\ud806\\udcb2      \\ud806\\udcd3\\ud806\\udcb3      \\ud806\\udcd4\\ud806\\udcb4      \\ud806\\udcd5\\ud806\\udcb5      \\ud806\\udcd6\\ud806\\udcb6      \\ud806\\udcd7\\ud806\\udcb7      \\ud806\\udcd8\\ud806\\udcb8      \\ud806\\udcd9\\ud806\\udcb9      \\ud806\\udcda\\ud806\\udcba      \\ud806\\udcdb\\ud806\\udcbb      \\ud806\\udcdc\\ud806\\udcbc      \\ud806\\udcdd\\ud806\\udcbd      \\ud806\\udcde\\ud806\\udcbe      "
  \o "\\ud806\\udcdf\\ud806\\udcbf      \\ud81b\\ude60\\ud81b\\ude40      \\ud81b\\ude61\\ud81b\\ude41      \\ud81b\\ude62\\ud81b\\ude42      \\ud81b\\ude63\\ud81b\\ude43      \\ud81b\\ude64\\ud81b\\ude44      \\ud81b\\ude65\\ud81b\\ude45      \\ud81b\\ude66\\ud81b\\ude46      \\ud81b\\ude67\\ud81b\\ude47      \\ud81b\\ude68\\ud81b\\ude48      \\ud81b\\ude69\\ud81b\\ude49      \\ud81b\\ude6a\\ud81b\\ude4a      \\ud81b\\ude6b\\ud81b\\ude4b      \\ud81b\\ude6c\\ud81b\\ude4c      \\ud81b\\ude6d\\ud81b\\ude4d      \\ud81b\\ude6e\\ud81b\\ude4e      "
  \o "\\ud81b\\ude6f\\ud81b\\ude4f      \\ud81b\\ude70\\ud81b\\ude50      \\ud81b\\ude71\\ud81b\\ude51      \\ud81b\\ude72\\ud81b\\ude52      \\ud81b\\ude73\\ud81b\\ude53      \\ud81b\\ude74\\ud81b\\ude54      \\ud81b\\ude75\\ud81b\\ude55      \\ud81b\\ude76\\ud81b\\ude56      \\ud81b\\ude77\\ud81b\\ude57      \\ud81b\\ude78\\ud81b\\ude58      \\ud81b\\ude79\\ud81b\\ude59      \\ud81b\\ude7a\\ud81b\\ude5a      \\ud81b\\ude7b\\ud81b\\ude5b      \\ud81b\\ude7c\\ud81b\\ude5c      \\ud81b\\ude7d\\ud81b\\ude5d      \\ud81b\\ude7e\\ud81b\\ude5e      "
  \o "\\ud81b\\ude7f\\ud81b\\ude5f      \\ud81b\\udebb\\ud81b\\udea0      \\ud81b\\udebc\\ud81b\\udea1      \\ud81b\\udebd\\ud81b\\udea2      \\ud81b\\udebe\\ud81b\\udea3      \\ud81b\\udebf\\ud81b\\udea4      \\ud81b\\udec0\\ud81b\\udea5      \\ud81b\\udec1\\ud81b\\udea6      \\ud81b\\udec2\\ud81b\\udea7      \\ud81b\\udec3\\ud81b\\udea8      \\ud81b\\udec4\\ud81b\\udea9      \\ud81b\\udec5\\ud81b\\udeaa      \\ud81b\\udec6\\ud81b\\udeab      \\ud81b\\udec7\\ud81b\\udeac      \\ud81b\\udec8\\ud81b\\udead      \\ud81b\\udec9\\ud81b\\udeae      "
  \o "\\ud81b\\udeca\\ud81b\\udeaf      \\ud81b\\udecb\\ud81b\\udeb0      \\ud81b\\udecc\\ud81b\\udeb1      \\ud81b\\udecd\\ud81b\\udeb2      \\ud81b\\udece\\ud81b\\udeb3      \\ud81b\\udecf\\ud81b\\udeb4      \\ud81b\\uded0\\ud81b\\udeb5      \\ud81b\\uded1\\ud81b\\udeb6      \\ud81b\\uded2\\ud81b\\udeb7      \\ud81b\\uded3\\ud81b\\udeb8      \\ud83a\\udd22\\ud83a\\udd00      \\ud83a\\udd23\\ud83a\\udd01      \\ud83a\\udd24\\ud83a\\udd02      \\ud83a\\udd25\\ud83a\\udd03      \\ud83a\\udd26\\ud83a\\udd04      \\ud83a\\udd27\\ud83a\\udd05      "
  \o "\\ud83a\\udd28\\ud83a\\udd06      \\ud83a\\udd29\\ud83a\\udd07      \\ud83a\\udd2a\\ud83a\\udd08      \\ud83a\\udd2b\\ud83a\\udd09      \\ud83a\\udd2c\\ud83a\\udd0a      \\ud83a\\udd2d\\ud83a\\udd0b      \\ud83a\\udd2e\\ud83a\\udd0c      \\ud83a\\udd2f\\ud83a\\udd0d      \\ud83a\\udd30\\ud83a\\udd0e      \\ud83a\\udd31\\ud83a\\udd0f      \\ud83a\\udd32\\ud83a\\udd10      \\ud83a\\udd33\\ud83a\\udd11      \\ud83a\\udd34\\ud83a\\udd12      \\ud83a\\udd35\\ud83a\\udd13      \\ud83a\\udd36\\ud83a\\udd14      \\ud83a\\udd37\\ud83a\\udd15      "
  \o "\\ud83a\\udd38\\ud83a\\udd16      \\ud83a\\udd39\\ud83a\\udd17      \\ud83a\\udd3a\\ud83a\\udd18      \\ud83a\\udd3b\\ud83a\\udd19      \\ud83a\\udd3c\\ud83a\\udd1a      \\ud83a\\udd3d\\ud83a\\udd1b      \\ud83a\\udd3e\\ud83a\\udd1c      \\ud83a\\udd3f\\ud83a\\udd1d      \\ud83a\\udd40\\ud83a\\udd1e      \\ud83a\\udd41\\ud83a\\udd1f      \\ud83a\\udd42\\ud83a\\udd20      \\ud83a\\udd43\\ud83a\\udd21      "

UpperCasePairs ==
  {<<Cells(UpperCaseTable, 5 * r - 4, 5 * r - 3),
     Cells(UpperCaseTable, 5 * r - 2, 5 * r)>> : r \in Rows(UpperCaseTable, 5)}

\* the code points with the property Cased and without Case_Ignorable, two
\* cells each
CasedTable ==
  "A           B           C           D           E           F           G           H           I           J           K           L           M           N           O           P           "
  \o "Q           R           S           T           U           V           W           X           Y           Z           a           b           c           d           e           f           "
  \o "g           h           i           j           k           l           m           n           o           p           q           r           s           t           u           v           "
  \o "w           x           y           z           ª           µ           º           À           Á           Â           Ã           Ä           Å           Æ           Ç           È           "
  \o "É           Ê           Ë           Ì           Í           Î           Ï           Ð           Ñ           Ò           Ó           Ô           Õ           Ö           Ø           Ù           "
  \o "Ú           Û           Ü           Ý           Þ           ß           à           á           â           ã           ä           å           æ           ç           è           é           "
  \o "ê           ë           ì           í           î           ï           ð           ñ           ò           ó           ô           õ           ö           ø           ù           ú           "
  \o "û           ü           ý           þ           ÿ           \\u0100      \\u0101      \\u0102      \\u0103      \\u0104      \\u0105      \\u0106      \\u0107      \\u0108      \\u0109      \\u010a      "
  \o "\\u010b      \\u010c      \\u010d      \\u010e      \\u010f      \\u0110      \\u0111      \\u0112      \\u0113      \\u0114      \\u0115      \\u0116      \\u0117      \\u0118      \\u0119      \\u011a      "
  \o "\\u011b      \\u011c      \\u011d      \\u011e      \\u011f      \\u0120      \\u0121      \\u0122      \\u0123      \\u0124      \\u0125      \\u0126      \\u0127      \\u0128      \\u0129      \\u012a      "
  \o "\\u012b      \\u012c      \\u012d      \\u012e      \\u012f      \\u0130      \\u0131      \\u0132      \\u0133      \\u0134      \\u0135      \\u0136      \\u0137      \\u0138      \\u0139      \\u013a      "
  \o "\\u013b      \\u013c      \\u013d      \\u013e      \\u013f      \\u0140      \\u0141      \\u0142      \\u0143      \\u0144      \\u0145      \\u0146      \\u0147      \\u0148      \\u0149      \\u014a      "
  \o "\\u014b      \\u014c      \\u014d      \\u014e      \\u014f      \\u0150      \\u0151      \\u0152      \\u0153      \\u0154      \\u0155      \\u0156      \\u0157      \\u0158      \\u0159      \\u015a      "
  \o "\\u015b      \\u015c      \\u015d      \\u015e      \\u015f      \\u0160      \\u0161      \\u0162      \\u0163      \\u0164      \\u0165      \\u0166      \\u0167      \\u0168      \\u0169      \\u016a      "
  \o "\\u016b      \\u016c      \\u016d      \\u016e      \\u016f      \\u0170      \\u0171      \\u0172      \\u0173      \\u0174      \\u0175      \\u0176      \\u0177      \\u0178      \\u0179      \\u017a      "
  \o "\\u017b      \\u017c      \\u017d      \\u017e      \\u017f      ƀ           Ɓ           Ƃ           ƃ           Ƅ           ƅ           Ɔ           Ƈ           ƈ           Ɖ           Ɗ           "
  \o "Ƌ           ƌ           ƍ           Ǝ           Ə           Ɛ           Ƒ           ƒ           Ɠ           Ɣ           ƕ           Ɩ           Ɨ           Ƙ           ƙ           ƚ           "
  \o "ƛ           Ɯ           Ɲ           ƞ           Ɵ           Ơ           ơ           Ƣ           ƣ           Ƥ           ƥ           Ʀ           Ƨ           ƨ           Ʃ           ƪ           "
  \o "ƫ           Ƭ           ƭ           Ʈ           Ư           ư           Ʊ           Ʋ           Ƴ           ƴ           Ƶ           ƶ           Ʒ           Ƹ           ƹ           ƺ           "
  \o "Ƽ           ƽ           ƾ           ƿ           Ǆ           ǅ           ǆ           Ǉ           ǈ           ǉ           Ǌ           ǋ           ǌ           Ǎ           ǎ           Ǐ           "
  \o "ǐ           Ǒ           ǒ           Ǔ           ǔ           Ǖ           ǖ           Ǘ           ǘ           Ǚ           ǚ           Ǜ           ǜ           ǝ           Ǟ           ǟ           "
  \o "Ǡ           ǡ           Ǣ           ǣ           Ǥ           ǥ           Ǧ           ǧ           Ǩ           ǩ           Ǫ           ǫ           Ǭ           ǭ           Ǯ           ǯ           "
  \o "ǰ           Ǳ           ǲ           ǳ           Ǵ           ǵ           Ƕ           Ƿ           Ǹ           ǹ           Ǻ           ǻ           Ǽ           ǽ           Ǿ           ǿ           "
  \o "\\u0200      \\u0201      \\u0202      \\u0203      \\u0204      \\u0205      \\u0206      \\u0207      \\u0208      \\u0209      \\u020a      \\u020b      \\u020c      \\u020d      \\u020e      \\u020f      "
  \o "\\u0210      \\u0211      \\u0212      \\u0213      \\u0214      \\u0215      \\u0216      \\u0217      \\u0218      \\u0219      \\u021a      \\u021b      \\u021c      \\u021d      \\u021e      \\u021f      "
  \o "\\u0220      \\u0221      \\u0222      \\u0223      \\u0224      \\u0225      \\u0226      \\u0227      \\u0228      \\u0229      \\u022a      \\u022b      \\u022c      \\u022d      \\u022e      \\u022f      "
  \o "\\u0230      \\u0231      \\u0232      \\u0233      \\u0234      \\u0235      \\u0236      \\u0237      \\u0238      \\u0239      \\u023a      \\u023b      \\u023c      \\u023d      \\u023e      \\u023f      "
  \o "\\u0240      \\u0241      \\u0242      \\u0243      \\u0244      \\u0245      \\u0246      \\u0247      \\u0248      \\u0249      \\u024a      \\u024b      \\u024c      \\u024d      \\u024e      \\u024f      "
  \o "\\u0250      \\u0251      \\u0252      \\u0253      \\u0254      \\u0255      \\u0256      \\u0257      \\u0258      \\u0259      \\u025a      \\u025b      \\u025c      \\u025d      \\u025e      \\u025f      "
  \o "\\u0260      \\u0261      \\u0262      \\u0263      \\u0264      \\u0265      \\u0266      \\u0267      \\u0268      \\u0269      \\u026a      \\u026b      \\u026c      \\u026d      \\u026e      \\u026f      "
  \o "\\u0270      \\u0271      \\u0272      \\u0273      \\u0274      \\u0275      \\u0276      \\u0277      \\u0278      \\u0279      \\u027a      \\u027b      \\u027c      \\u027d      \\u027e      \\u027f      "
  \o "ʀ           ʁ           ʂ           ʃ           ʄ           ʅ           ʆ           ʇ           ʈ           ʉ           ʊ           ʋ           ʌ           ʍ           ʎ           ʏ           "
  \o "ʐ           ʑ           ʒ           ʓ           ʖ           ʗ           ʘ           ʙ           ʚ           ʛ           ʜ           ʝ           ʞ           ʟ           ʠ           ʡ           "
  \o "ʢ           ʣ           ʤ           ʥ           ʦ           ʧ           ʨ           ʩ           ʪ           ʫ           ʬ           ʭ           ʮ           ʯ           \\u0370      \\u0371      "
  \o "\\u0372      \\u0373      \\u0376      \\u0377      \\u037b      \\u037c      \\u037d      \\u037f      Ά           Έ           Ή           Ί           Ό           Ύ           Ώ           ΐ           "
  \o "Α           Β           Γ           Δ           Ε           Ζ           Η           Θ           Ι           Κ           Λ           Μ           Ν           Ξ           Ο           Π           "
  \o "Ρ           Σ           Τ           Υ           Φ           Χ           Ψ           Ω           Ϊ           Ϋ           ά           έ           ή           ί           ΰ           α           "
  \o "β           γ           δ           ε           ζ           η           θ           ι           κ           λ           μ           ν           ξ           ο           π           ρ           "
  \o "ς           σ           τ           υ           φ           χ           ψ           ω           ϊ           ϋ           ό           ύ           ώ           Ϗ           ϐ           ϑ           "
  \o "ϒ           ϓ           ϔ           ϕ           ϖ           ϗ           Ϙ           ϙ           Ϛ           ϛ           Ϝ           ϝ           Ϟ           ϟ           Ϡ           ϡ           "
  \o "Ϣ           ϣ           Ϥ           ϥ           Ϧ           ϧ           Ϩ           ϩ           Ϫ           ϫ           Ϭ           ϭ           Ϯ           ϯ           ϰ           ϱ           "
  \o "ϲ           ϳ           ϴ           ϵ           Ϸ           ϸ           Ϲ           Ϻ           ϻ           ϼ           Ͻ           Ͼ           Ͽ           \\u0400      \\u0401      \\u0402      "
  \o "\\u0403      \\u0404      \\u0405      \\u0406      \\u0407      \\u0408      \\u0409      \\u040a      \\u040b      \\u040c      \\u040d      \\u040e      \\u040f      \\u0410      \\u0411      \\u0412      "
  \o "\\u0413      \\u0414      \\u0415      \\u0416      \\u0417      \\u0418      \\u0419      \\u041a      \\u041b      \\u041c      \\u041d      \\u041e      \\u041f      \\u0420      \\u0421      \\u0422      "
  \o "\\u0423      \\u0424      \\u0425      \\u0426      \\u0427      \\u0428      \\u0429      \\u042a      \\u042b      \\u042c      \\u042d      \\u042e      \\u042f      \\u0430      \\u0431      \\u0432      "
  \o "\\u0433      \\u0434      \\u0435      \\u0436      \\u0437      \\u0438      \\u0439      \\u043a      \\u043b      \\u043c      \\u043d      \\u043e      \\u043f      \\u0440      \\u0441      \\u0442      "
  \o "\\u0443      \\u0444      \\u0445      \\u0446      \\u0447      \\u0448      \\u0449      \\u044a      \\u044b      \\u044c      \\u044d      \\u044e      \\u044f      \\u0450      \\u0451      \\u0452      "
  \o "\\u0453      \\u0454      \\u0455      \\u0456      \\u0457      \\u0458      \\u0459      \\u045a      \\u045b      \\u045c      \\u045d      \\u045e      \\u045f      \\u0460      \\u0461      \\u0462      "
  \o "\\u0463      \\u0464      \\u0465      \\u0466      \\u0467      \\u0468      \\u0469      \\u046a      \\u046b      \\u046c      \\u046d      \\u046e      \\u046f      \\u0470      \\u0471      \\u0472      "
  \o "\\u0473      \\u0474      \\u0475      \\u0476      \\u0477      \\u0478      \\u0479      \\u047a      \\u047b      \\u047c      \\u047d      \\u047e      \\u047f      Ҁ           ҁ           Ҋ           "
  \o "ҋ           Ҍ           ҍ           Ҏ           ҏ           Ґ           ґ           Ғ           ғ           Ҕ           ҕ           Җ           җ           Ҙ           ҙ           Қ           "
  \o "қ           Ҝ           ҝ           Ҟ           ҟ           Ҡ           ҡ           Ң           ң           Ҥ           ҥ           Ҧ           ҧ           Ҩ           ҩ           Ҫ           "
  \o "ҫ           Ҭ           ҭ           Ү           ү           Ұ           ұ           Ҳ           ҳ           Ҵ           ҵ           Ҷ           ҷ           Ҹ           ҹ           Һ           "
  \o "һ           Ҽ           ҽ           Ҿ           ҿ           Ӏ           Ӂ           ӂ           Ӄ           ӄ           Ӆ           ӆ           Ӈ           ӈ           Ӊ           ӊ           "
  \o "Ӌ           ӌ           Ӎ           ӎ           ӏ           Ӑ           ӑ           Ӓ           ӓ           Ӕ           ӕ           Ӗ           ӗ           Ә           ә           Ӛ           "
  \o "ӛ           Ӝ           ӝ           Ӟ           ӟ           Ӡ           ӡ           Ӣ           ӣ           Ӥ           ӥ           Ӧ           ӧ           Ө           ө           Ӫ           "
  \o "ӫ           Ӭ           ӭ           Ӯ           ӯ           Ӱ           ӱ           Ӳ           ӳ           Ӵ           ӵ           Ӷ           ӷ           Ӹ           ӹ           Ӻ           "
  \o "ӻ           Ӽ           ӽ           Ӿ           ӿ           \\u0500      \\u0501      \\u0502      \\u0503      \\u0504      \\u0505      \\u0506      \\u0507      \\u0508      \\u0509      \\u050a      "
  \o "\\u050b      \\u050c      \\u050d      \\u050e      \\u050f      \\u0510      \\u0511      \\u0512      \\u0513      \\u0514      \\u0515      \\u0516      \\u0517      \\u0518      \\u0519      \\u051a      "
  \o "\\u051b      \\u051c      \\u051d      \\u051e      \\u051f      \\u0520      \\u0521      \\u0522      \\u0523      \\u0524      \\u0525      \\u0526      \\u0527      \\u0528      \\u0529      \\u052a      "
  \o "\\u052b      \\u052c      \\u052d      \\u052e      \\u052f      \\u0531      \\u0532      \\u0533      \\u0534      \\u0535      \\u0536      \\u0537      \\u0538      \\u0539      \\u053a      \\u053b      "
  \o "\\u053c      \\u053d      \\u053e      \\u053f      \\u0540      \\u0541      \\u0542      \\u0543      \\u0544      \\u0545      \\u0546      \\u0547      \\u0548      \\u0549      \\u054a      \\u054b      "
  \o "\\u054c      \\u054d      \\u054e      \\u054f      \\u0550      \\u0551      \\u0552      \\u0553      \\u0554      \\u0555      \\u0556      \\u0560      \\u0561      \\u0562      \\u0563      \\u0564      "
  \o "\\u0565      \\u0566      \\u0567      \\u0568      \\u0569      \\u056a      \\u056b      \\u056c      \\u056d      \\u056e      \\u056f      \\u0570      \\u0571      \\u0572      \\u0573      \\u0574      "
  \o "\\u0575      \\u0576      \\u0577      \\u0578      \\u0579      \\u057a      \\u057b      \\u057c      \\u057d      \\u057e      \\u057f      ր           ց           ւ           փ           ք           "
  \o "օ           ֆ           և           ֈ           Ⴀ           Ⴁ           Ⴂ           Ⴃ           Ⴄ           Ⴅ           Ⴆ           Ⴇ           Ⴈ           Ⴉ           Ⴊ           Ⴋ           "
  \o "Ⴌ           Ⴍ           Ⴎ           Ⴏ           Ⴐ           Ⴑ           Ⴒ           Ⴓ           Ⴔ           Ⴕ           Ⴖ           Ⴗ           Ⴘ           Ⴙ           Ⴚ           Ⴛ           "
  \o "Ⴜ           Ⴝ           Ⴞ           Ⴟ           Ⴠ           Ⴡ           Ⴢ           Ⴣ           Ⴤ           Ⴥ           Ⴧ           Ⴭ           ა           ბ           გ           დ           "
  \o "ე           ვ           ზ           თ           ი           კ           ლ           მ           ნ           ო           პ           ჟ           რ           ს           ტ           უ           "
  \o "ფ           ქ           ღ           ყ           შ           ჩ           ც           ძ           წ           ჭ           ხ           ჯ           ჰ           ჱ           ჲ           ჳ           "
  \o "ჴ           ჵ           ჶ           ჷ           ჸ           ჹ           ჺ           ჽ           ჾ           ჿ           Ꭰ           Ꭱ           Ꭲ           Ꭳ           Ꭴ           Ꭵ           "
  \o "Ꭶ           Ꭷ           Ꭸ           Ꭹ           Ꭺ           Ꭻ           Ꭼ           Ꭽ           Ꭾ           Ꭿ           Ꮀ           Ꮁ           Ꮂ           Ꮃ           Ꮄ           Ꮅ           "
  \o "Ꮆ           Ꮇ           Ꮈ           Ꮉ           Ꮊ           Ꮋ           Ꮌ           Ꮍ           Ꮎ           Ꮏ           Ꮐ           Ꮑ           Ꮒ           Ꮓ           Ꮔ           Ꮕ           "
  \o "Ꮖ           Ꮗ           Ꮘ           Ꮙ           Ꮚ           Ꮛ           Ꮜ           Ꮝ           Ꮞ           Ꮟ           Ꮠ           Ꮡ           Ꮢ           Ꮣ           Ꮤ           Ꮥ           "
  \o "Ꮦ           Ꮧ           Ꮨ           Ꮩ           Ꮪ           Ꮫ           Ꮬ           Ꮭ           Ꮮ           Ꮯ           Ꮰ           Ꮱ           Ꮲ           Ꮳ           Ꮴ           Ꮵ           "
  \o "Ꮶ           Ꮷ           Ꮸ           Ꮹ           Ꮺ           Ꮻ           Ꮼ           Ꮽ           Ꮾ           Ꮿ           Ᏸ           Ᏹ           Ᏺ           Ᏻ           Ᏼ           Ᏽ           "
  \o "ᏸ           ᏹ           ᏺ           ᏻ           ᏼ           ᏽ           ᲀ           ᲁ           ᲂ           ᲃ           ᲄ           ᲅ           ᲆ           ᲇ           ᲈ           Ᲊ           "
  \o "ᲊ           Ა           Ბ           Გ           Დ           Ე           Ვ           Ზ           Თ           Ი           Კ           Ლ           Მ           Ნ           Ო           Პ           "
  \o "Ჟ           Რ           Ს           Ტ           Უ           Ფ           Ქ           Ღ           Ყ           Შ           Ჩ           Ც           Ძ           Წ           Ჭ           Ხ           "
  \o "Ჯ           Ჰ           Ჱ           Ჲ           Ჳ           Ჴ           Ჵ           Ჶ           Ჷ           Ჸ           Ჹ           Ჺ           Ჽ           Ჾ           Ჿ           \\u1d00      "
  \o "\\u1d01      \\u1d02      \\u1d03      \\u1d04      \\u1d05      \\u1d06      \\u1d07      \\u1d08      \\u1d09      \\u1d0a      \\u1d0b      \\u1d0c      \\u1d0d      \\u1d0e      \\u1d0f      \\u1d10      "
  \o "\\u1d11      \\u1d12      \\u1d13      \\u1d14      \\u1d15      \\u1d16      \\u1d17      \\u1d18      \\u1d19      \\u1d1a      \\u1d1b      \\u1d1c      \\u1d1d      \\u1d1e      \\u1d1f      \\u1d20      "
  \o "\\u1d21      \\u1d22      \\u1d23      \\u1d24      \\u1d25      \\u1d26      \\u1d27      \\u1d28      \\u1d29      \\u1d2a      \\u1d2b      \\u1d6b      \\u1d6c      \\u1d6d      \\u1d6e      \\u1d6f      "
  \o "\\u1d70      \\u1d71      \\u1d72      \\u1d73      \\u1d74      \\u1d75      \\u1d76      \\u1d77      \\u1d79      \\u1d7a      \\u1d7b      \\u1d7c      \\u1d7d      \\u1d7e      \\u1d7f      ᶀ           "
  \o "ᶁ           ᶂ           ᶃ           ᶄ           ᶅ           ᶆ           ᶇ           ᶈ           ᶉ           ᶊ           ᶋ           ᶌ           ᶍ           ᶎ           ᶏ           ᶐ           "
  \o "ᶑ           ᶒ           ᶓ           ᶔ           ᶕ           ᶖ           ᶗ           ᶘ           ᶙ           ᶚ           \\u1e00      \\u1e01      \\u1e02      \\u1e03      \\u1e04      \\u1e05      "
  \o "\\u1e06      \\u1e07      \\u1e08      \\u1e09      \\u1e0a      \\u1e0b      \\u1e0c      \\u1e0d      \\u1e0e      \\u1e0f      \\u1e10      \\u1e11      \\u1e12      \\u1e13      \\u1e14      \\u1e15      "
  \o "\\u1e16      \\u1e17      \\u1e18      \\u1e19      \\u1e1a      \\u1e1b      \\u1e1c      \\u1e1d      \\u1e1e      \\u1e1f      \\u1e20      \\u1e21      \\u1e22      \\u1e23      \\u1e24      \\u1e25      "
  \o "\\u1e26      \\u1e27      \\u1e28      \\u1e29      \\u1e2a      \\u1e2b      \\u1e2c      \\u1e2d      \\u1e2e      \\u1e2f      \\u1e30      \\u1e31      \\u1e32      \\u1e33      \\u1e34      \\u1e35      "
  \o "\\u1e36      \\u1e37      \\u1e38      \\u1e39      \\u1e3a      \\u1e3b      \\u1e3c      \\u1e3d      \\u1e3e      \\u1e3f      \\u1e40      \\u1e41      \\u1e42      \\u1e43      \\u1e44      \\u1e45      "
  \o "\\u1e46      \\u1e47      \\u1e48      \\u1e49      \\u1e4a      \\u1e4b      \\u1e4c      \\u1e4d      \\u1e4e      \\u1e4f      \\u1e50      \\u1e51      \\u1e52      \\u1e53      \\u1e54      \\u1e55      "
  \o "\\u1e56      \\u1e57      \\u1e58      \\u1e59      \\u1e5a      \\u1e5b      \\u1e5c      \\u1e5d      \\u1e5e      \\u1e5f      \\u1e60      \\u1e61      \\u1e62      \\u1e63      \\u1e64      \\u1e65      "
  \o "\\u1e66      \\u1e67      \\u1e68      \\u1e69      \\u1e6a      \\u1e6b      \\u1e6c      \\u1e6d      \\u1e6e      \\u1e6f      \\u1e70      \\u1e71      \\u1e72      \\u1e73      \\u1e74      \\u1e75      "
  \o "\\u1e76      \\u1e77      \\u1e78      \\u1e79      \\u1e7a      \\u1e7b      \\u1e7c      \\u1e7d      \\u1e7e      \\u1e7f      Ẁ           ẁ           Ẃ           ẃ           Ẅ           ẅ           "
  \o "Ẇ           ẇ           Ẉ           ẉ           Ẋ           ẋ           Ẍ           ẍ           Ẏ           ẏ           Ẑ           ẑ           Ẓ           ẓ           Ẕ           ẕ           "
  \o "ẖ           ẗ           ẘ           ẙ           ẚ           ẛ           ẜ           ẝ           ẞ           ẟ           Ạ           ạ           Ả           ả           Ấ           ấ           "
  \o "Ầ           ầ           Ẩ           ẩ           Ẫ           ẫ           Ậ           ậ           Ắ           ắ           Ằ           ằ           Ẳ           ẳ           Ẵ           ẵ           "
  \o "Ặ           ặ           Ẹ           ẹ           Ẻ           ẻ           Ẽ           ẽ           Ế           ế           Ề           ề           Ể           ể           Ễ           ễ           "
  \o "Ệ           ệ           Ỉ           ỉ           Ị           ị           Ọ           ọ           Ỏ           ỏ           Ố           ố           Ồ           ồ           Ổ           ổ           "
  \o "Ỗ           ỗ           Ộ           ộ           Ớ           ớ           Ờ           ờ           Ở           ở           Ỡ           ỡ           Ợ           ợ           Ụ           ụ           "
  \o "Ủ           ủ           Ứ           ứ           Ừ           ừ           Ử           ử           Ữ           ữ           Ự           ự           Ỳ           ỳ           Ỵ           ỵ           "
  \o "Ỷ           ỷ           Ỹ           ỹ           Ỻ           ỻ           Ỽ           ỽ           Ỿ           ỿ           \\u1f00      \\u1f01      \\u1f02      \\u1f03      \\u1f04      \\u1f05      "
  \o "\\u1f06      \\u1f07      \\u1f08      \\u1f09      \\u1f0a      \\u1f0b      \\u1f0c      \\u1f0d      \\u1f0e      \\u1f0f      \\u1f10      \\u1f11      \\u1f12      \\u1f13      \\u1f14      \\u1f15      "
  \o "\\u1f18      \\u1f19      \\u1f1a      \\u1f1b      \\u1f1c      \\u1f1d      \\u1f20      \\u1f21      \\u1f22      \\u1f23      \\u1f24      \\u1f25      \\u1f26      \\u1f27      \\u1f28      \\u1f29      "
  \o "\\u1f2a      \\u1f2b      \\u1f2c      \\u1f2d      \\u1f2e      \\u1f2f      \\u1f30      \\u1f31      \\u1f32      \\u1f33      \\u1f34      \\u1f35      \\u1f36      \\u1f37      \\u1f38      \\u1f39      "
  \o "\\u1f3a      \\u1f3b      \\u1f3c      \\u1f3d      \\u1f3e      \\u1f3f      \\u1f40      \\u1f41      \\u1f42      \\u1f43      \\u1f44      \\u1f45      \\u1f48      \\u1f49      \\u1f4a      \\u1f4b      "
  \o "\\u1f4c      \\u1f4d      \\u1f50      \\u1f51      \\u1f52      \\u1f53      \\u1f54      \\u1f55      \\u1f56      \\u1f57      \\u1f59      \\u1f5b      \\u1f5d      \\u1f5f      \\u1f60      \\u1f61      "
  \o "\\u1f62      \\u1f63      \\u1f64      \\u1f65      \\u1f66      \\u1f67      \\u1f68      \\u1f69      \\u1f6a      \\u1f6b      \\u1f6c      \\u1f6d      \\u1f6e      \\u1f6f      \\u1f70      \\u1f71      "
  \o "\\u1f72      \\u1f73      \\u1f74      \\u1f75      \\u1f76      \\u1f77      \\u1f78      \\u1f79      \\u1f7a      \\u1f7b      \\u1f7c      \\u1f7d      ᾀ           ᾁ           ᾂ           ᾃ           "
  \o "ᾄ           ᾅ           ᾆ           ᾇ           ᾈ           ᾉ           ᾊ           ᾋ           ᾌ           ᾍ           ᾎ           ᾏ           ᾐ           ᾑ           ᾒ           ᾓ           "
  \o "ᾔ           ᾕ           ᾖ           ᾗ           ᾘ           ᾙ           ᾚ           ᾛ           ᾜ           ᾝ           ᾞ           ᾟ           ᾠ           ᾡ           ᾢ           ᾣ           "
  \o "ᾤ           ᾥ           ᾦ           ᾧ           ᾨ           ᾩ           ᾪ           ᾫ           ᾬ           ᾭ           ᾮ           ᾯ           ᾰ           ᾱ           ᾲ           ᾳ           "
  \o "ᾴ           ᾶ           ᾷ           Ᾰ           Ᾱ           Ὰ           Ά           ᾼ           ι           ῂ           ῃ           ῄ           ῆ           ῇ           Ὲ           Έ           "
  \o "Ὴ           Ή           ῌ           ῐ           ῑ           ῒ           ΐ           ῖ           ῗ           Ῐ           Ῑ           Ὶ           Ί           ῠ           ῡ           ῢ           "
  \o "ΰ           ῤ           ῥ           ῦ           ῧ           Ῠ           Ῡ           Ὺ           Ύ           Ῥ           ῲ           ῳ           ῴ           ῶ           ῷ           Ὸ           "
  \o "Ό           Ὼ           Ώ           ῼ           \\u2102      \\u2107      \\u210a      \\u210b      \\u210c      \\u210d      \\u210e      \\u210f      \\u2110      \\u2111      \\u2112      \\u2113      "
  \o "\\u2115      \\u2119      \\u211a      \\u211b      \\u211c      \\u211d      \\u2124      \\u2126      \\u2128      \\u212a      \\u212b      \\u212c      \\u212d      \\u212f      \\u2130      \\u2131      "
  \o "\\u2132      \\u2133      \\u2134      \\u2139      \\u213c      \\u213d      \\u213e      \\u213f      \\u2145      \\u2146      \\u2147      \\u2148      \\u2149      \\u214e      \\u2160      \\u2161      "
  \o "\\u2162      \\u2163      \\u2164      \\u2165      \\u2166      \\u2167      \\u2168      \\u2169      \\u216a      \\u216b      \\u216c      \\u216d      \\u216e      \\u216f      \\u2170      \\u2171      "
  \o "\\u2172      \\u2173      \\u2174      \\u2175      \\u2176      \\u2177      \\u2178      \\u2179      \\u217a      \\u217b      \\u217c      \\u217d      \\u217e      \\u217f      Ↄ           ↄ           "
  \o "Ⓐ           Ⓑ           Ⓒ           Ⓓ           Ⓔ           Ⓕ           Ⓖ           Ⓗ           Ⓘ           Ⓙ           Ⓚ           Ⓛ           Ⓜ           Ⓝ           Ⓞ           Ⓟ           "
  \o "Ⓠ           Ⓡ           Ⓢ           Ⓣ           Ⓤ           Ⓥ           Ⓦ           Ⓧ           Ⓨ           Ⓩ           ⓐ           ⓑ           ⓒ           ⓓ           ⓔ           ⓕ           "
  \o "ⓖ           ⓗ           ⓘ           ⓙ           ⓚ           ⓛ           ⓜ           ⓝ           ⓞ           ⓟ           ⓠ           ⓡ           ⓢ           ⓣ           ⓤ           ⓥ           "
  \o "ⓦ           ⓧ           ⓨ           ⓩ           \\u2c00      \\u2c01      \\u2c02      \\u2c03      \\u2c04      \\u2c05      \\u2c06      \\u2c07      \\u2c08      \\u2c09      \\u2c0a      \\u2c0b      "
  \o "\\u2c0c      \\u2c0d      \\u2c0e      \\u2c0f      \\u2c10      \\u2c11      \\u2c12      \\u2c13      \\u2c14      \\u2c15      \\u2c16      \\u2c17      \\u2c18      \\u2c19      \\u2c1a      \\u2c1b      "
  \o "\\u2c1c      \\u2c1d      \\u2c1e      \\u2c1f      \\u2c20      \\u2c21      \\u2c22      \\u2c23      \\u2c24      \\u2c25      \\u2c26      \\u2c27      \\u2c28      \\u2c29      \\u2c2a      \\u2c2b      "
  \o "\\u2c2c      \\u2c2d      \\u2c2e      \\u2c2f      \\u2c30      \\u2c31      \\u2c32      \\u2c33      \\u2c34      \\u2c35      \\u2c36      \\u2c37      \\u2c38      \\u2c39      \\u2c3a      \\u2c3b      "
  \o "\\u2c3c      \\u2c3d      \\u2c3e      \\u2c3f      \\u2c40      \\u2c41      \\u2c42      \\u2c43      \\u2c44      \\u2c45      \\u2c46      \\u2c47      \\u2c48      \\u2c49      \\u2c4a      \\u2c4b      "
  \o "\\u2c4c      \\u2c4d      \\u2c4e      \\u2c4f      \\u2c50      \\u2c51      \\u2c52      \\u2c53      \\u2c54      \\u2c55      \\u2c56      \\u2c57      \\u2c58      \\u2c59      \\u2c5a      \\u2c5b      "
  \o "\\u2c5c      \\u2c5d      \\u2c5e      \\u2c5f      \\u2c60      \\u2c61      \\u2c62      \\u2c63      \\u2c64      \\u2c65      \\u2c66      \\u2c67      \\u2c68      \\u2c69      \\u2c6a      \\u2c6b      "
  \o "\\u2c6c      \\u2c6d      \\u2c6e      \\u2c6f      \\u2c70      \\u2c71      \\u2c72      \\u2c73      \\u2c74      \\u2c75      \\u2c76      \\u2c77      \\u2c78      \\u2c79      \\u2c7a      \\u2c7b      "
  \o "\\u2c7e      \\u2c7f      Ⲁ           ⲁ           Ⲃ           ⲃ           Ⲅ           ⲅ           Ⲇ           ⲇ           Ⲉ           ⲉ           Ⲋ           ⲋ           Ⲍ           ⲍ           "
  \o "Ⲏ           ⲏ           Ⲑ           ⲑ           Ⲓ           ⲓ           Ⲕ           ⲕ           Ⲗ           ⲗ           Ⲙ           ⲙ           Ⲛ           ⲛ           Ⲝ           ⲝ           "
  \o "Ⲟ           ⲟ           Ⲡ           ⲡ           Ⲣ           ⲣ           Ⲥ           ⲥ           Ⲧ           ⲧ           Ⲩ           ⲩ           Ⲫ           ⲫ           Ⲭ           ⲭ           "
  \o "Ⲯ           ⲯ           Ⲱ           ⲱ           Ⲳ           ⲳ           Ⲵ           ⲵ           Ⲷ           ⲷ           Ⲹ           ⲹ           Ⲻ           ⲻ           Ⲽ           ⲽ           "
  \o "Ⲿ           ⲿ           Ⳁ           ⳁ           Ⳃ           ⳃ           Ⳅ           ⳅ           Ⳇ           ⳇ           Ⳉ           ⳉ           Ⳋ           ⳋ           Ⳍ           ⳍ           "
  \o "Ⳏ           ⳏ           Ⳑ           ⳑ           Ⳓ           ⳓ           Ⳕ           ⳕ           Ⳗ           ⳗ           Ⳙ           ⳙ           Ⳛ           ⳛ           Ⳝ           ⳝ           "
  \o "Ⳟ           ⳟ           Ⳡ           ⳡ           Ⳣ           ⳣ           ⳤ           Ⳬ           ⳬ           Ⳮ           ⳮ           Ⳳ           ⳳ           \\u2d00      \\u2d01      \\u2d02      "
  \o "\\u2d03      \\u2d04      \\u2d05      \\u2d06      \\u2d07      \\u2d08      \\u2d09      \\u2d0a      \\u2d0b      \\u2d0c      \\u2d0d      \\u2d0e      \\u2d0f      \\u2d10      \\u2d11      \\u2d12      "
  \o "\\u2d13      \\u2d14      \\u2d15      \\u2d16      \\u2d17      \\u2d18      \\u2d19      \\u2d1a      \\u2d1b      \\u2d1c      \\u2d1d      \\u2d1e      \\u2d1f      \\u2d20      \\u2d21      \\u2d22      "
  \o "\\u2d23      \\u2d24      \\u2d25      \\u2d27      \\u2d2d      \\ua640      \\ua641      \\ua642      \\ua643      \\ua644      \\ua645      \\ua646      \\ua647      \\ua648      \\ua649      \\ua64a      "
  \o "\\ua64b      \\ua64c      \\ua64d      \\ua64e      \\ua64f      \\ua650      \\ua651      \\ua652      \\ua653      \\ua654      \\ua655      \\ua656      \\ua657      \\ua658      \\ua659      \\ua65a      "
  \o "\\ua65b      \\ua65c      \\ua65d      \\ua65e      \\ua65f      \\ua660      \\ua661      \\ua662      \\ua663      \\ua664      \\ua665      \\ua666      \\ua667      \\ua668      \\ua669      \\ua66a      "
  \o "\\ua66b      \\ua66c      \\ua66d      Ꚁ           ꚁ           Ꚃ           ꚃ           Ꚅ           ꚅ           Ꚇ           ꚇ           Ꚉ           ꚉ           Ꚋ           ꚋ           Ꚍ           "
  \o "ꚍ           Ꚏ           ꚏ           Ꚑ           ꚑ           Ꚓ           ꚓ           Ꚕ           ꚕ           Ꚗ           ꚗ           Ꚙ           ꚙ           Ꚛ           ꚛ           \\ua722      "
  \o "\\ua723      \\ua724      \\ua725      \\ua726      \\ua727      \\ua728      \\ua729      \\ua72a      \\ua72b      \\ua72c      \\ua72d      \\ua72e      \\ua72f      \\ua730      \\ua731      \\ua732      "
  \o "\\ua733      \\ua734      \\ua735      \\ua736      \\ua737      \\ua738      \\ua739      \\ua73a      \\ua73b      \\ua73c      \\ua73d      \\ua73e      \\ua73f      \\ua740      \\ua741      \\ua742      "
  \o "\\ua743      \\ua744      \\ua745      \\ua746      \\ua747      \\ua748      \\ua749      \\ua74a      \\ua74b      \\ua74c      \\ua74d      \\ua74e      \\ua74f      \\ua750      \\ua751      \\ua752      "
  \o "\\ua753      \\ua754      \\ua755      \\ua756      \\ua757      \\ua758      \\ua759      \\ua75a      \\ua75b      \\ua75c      \\ua75d      \\ua75e      \\ua75f      \\ua760      \\ua761      \\ua762      "
  \o "\\ua763      \\ua764      \\ua765      \\ua766      \\ua767      \\ua768      \\ua769      \\ua76a      \\ua76b      \\ua76c      \\ua76d      \\ua76e      \\ua76f      \\ua771      \\ua772      \\ua773      "
  \o "\\ua774      \\ua775      \\ua776      \\ua777      \\ua778      \\ua779      \\ua77a      \\ua77b      \\ua77c      \\ua77d      \\ua77e      \\ua77f      Ꞁ           ꞁ           Ꞃ           ꞃ           "
  \o "Ꞅ           ꞅ           Ꞇ           ꞇ           Ꞌ           ꞌ           Ɥ           ꞎ           Ꞑ           ꞑ           Ꞓ           ꞓ           ꞔ           ꞕ           Ꞗ           ꞗ           "
  \o "Ꞙ           ꞙ           Ꞛ           ꞛ           Ꞝ           ꞝ           Ꞟ           ꞟ           Ꞡ           ꞡ           Ꞣ           ꞣ           Ꞥ           ꞥ           Ꞧ           ꞧ           "
  \o "Ꞩ           ꞩ           Ɦ           Ɜ           Ɡ           Ɬ           Ɪ           ꞯ           Ʞ           Ʇ           Ʝ           Ꭓ           Ꞵ           ꞵ           Ꞷ           ꞷ           "
  \o "Ꞹ           ꞹ           Ꞻ           ꞻ           Ꞽ           ꞽ           Ꞿ           ꞿ           Ꟁ           ꟁ           Ꟃ           ꟃ           Ꞔ           Ʂ           Ᶎ           Ꟈ           "
  \o "ꟈ           Ꟊ           ꟊ           Ɤ           Ꟍ           ꟍ           ꟎           ꟏           Ꟑ           ꟑ           ꟒           ꟓ           ꟔           ꟕ           Ꟗ           ꟗ           "
  \o "Ꟙ           ꟙ           Ꟛ           ꟛ           Ƛ           Ꟶ           ꟶ           ꟺ           \\uab30      \\uab31      \\uab32      \\uab33      \\uab34      \\uab35      \\uab36      \\uab37      "
  \o "\\uab38      \\uab39      \\uab3a      \\uab3b      \\uab3c      \\uab3d      \\uab3e      \\uab3f      \\uab40      \\uab41      \\uab42      \\uab43      \\uab44      \\uab45      \\uab46      \\uab47      "
  \o "\\uab48      \\uab49      \\uab4a      \\uab4b      \\uab4c      \\uab4d      \\uab4e      \\uab4f      \\uab50      \\uab51      \\uab52      \\uab53      \\uab54      \\uab55      \\uab56      \\uab57      "
  \o "\\uab58      \\uab59      \\uab5a      \\uab60      \\uab61      \\uab62      \\uab63      \\uab64      \\uab65      \\uab66      \\uab67      \\uab68      \\uab70      \\uab71      \\uab72      \\uab73      "
  \o "\\uab74      \\uab75      \\uab76      \\uab77      \\uab78      \\uab79      \\uab7a      \\uab7b      \\uab7c      \\uab7d      \\uab7e      \\uab7f      ꮀ           ꮁ           ꮂ           ꮃ           "
  \o "ꮄ           ꮅ           ꮆ           ꮇ           ꮈ           ꮉ           ꮊ           ꮋ           ꮌ           ꮍ           ꮎ           ꮏ           ꮐ           ꮑ           ꮒ           ꮓ           "
  \o "ꮔ           ꮕ           ꮖ           ꮗ           ꮘ           ꮙ           ꮚ           ꮛ           ꮜ           ꮝ           ꮞ           ꮟ           ꮠ           ꮡ           ꮢ           ꮣ           "
  \o "ꮤ           ꮥ           ꮦ           ꮧ           ꮨ           ꮩ           ꮪ           ꮫ           ꮬ           ꮭ           ꮮ           ꮯ           ꮰ           ꮱ           ꮲ           ꮳ           "
  \o "ꮴ           ꮵ           ꮶ           ꮷ           ꮸ           ꮹ           ꮺ           ꮻ           ꮼ           ꮽ           ꮾ           ꮿ           \\ufb00      \\ufb01      \\ufb02      \\ufb03      "
  \o "\\ufb04      \\ufb05      \\ufb06      \\ufb13      \\ufb14      \\ufb15      \\ufb16      \\ufb17      \\uff21      \\uff22      \\uff23      \\uff24      \\uff25      \\uff26      \\uff27      \\uff28      "
  \o "\\uff29      \\uff2a      \\uff2b      \\uff2c      \\uff2d      \\uff2e      \\uff2f      \\uff30      \\uff31      \\uff32      \\uff33      \\uff34      \\uff35      \\uff36      \\uff37      \\uff38      "
  \o "\\uff39      \\uff3a      \\uff41      \\uff42      \\uff43      \\uff44      \\uff45      \\uff46      \\uff47      \\uff48      \\uff49      \\uff4a      \\uff4b      \\uff4c      \\uff4d      \\uff4e      "
  \o "\\uff4f      \\uff50      \\uff51      \\uff52      \\uff53      \\uff54      \\uff55      \\uff56      \\uff57      \\uff58      \\uff59      \\uff5a      \\ud801\\udc00\\ud801\\udc01\\ud801\\udc02\\ud801\\udc03"
  \o "\\ud801\\udc04\\ud801\\udc05\\ud801\\udc06\\ud801\\udc07\\ud801\\udc08\\ud801\\udc09\\ud801\\udc0a\\ud801\\udc0b\\ud801\\udc0c\\ud801\\udc0d\\ud801\\udc0e\\ud801\\udc0f\\ud801\\udc10\\ud801\\udc11\\ud801\\udc12\\ud801\\udc13"
  \o "\\ud801\\udc14\\ud801\\udc15\\ud801\\udc16\\ud801\\udc17\\ud801\\udc18\\ud801\\udc19\\ud801\\udc1a\\ud801\\udc1b\\ud801\\udc1c\\ud801\\udc1d\\ud801\\udc1e\\ud801\\udc1f\\ud801\\udc20\\ud801\\udc21\\ud801\\udc22\\ud801\\udc23"
  \o "\\ud801\\udc24\\ud801\\udc25\\ud801\\udc26\\ud801\\udc27\\ud801\\udc28\\ud801\\udc29\\ud801\\udc2a\\ud801\\udc2b\\ud801\\udc2c\\ud801\\udc2d\\ud801\\udc2e\\ud801\\udc2f\\ud801\\udc30\\ud801\\udc31\\ud801\\udc32\\ud801\\udc33"
  \o "\\ud801\\udc34\\ud801\\udc35\\ud801\\udc36\\ud801\\udc37\\ud801\\udc38\\ud801\\udc39\\ud801\\udc3a\\ud801\\udc3b\\ud801\\udc3c\\ud801\\udc3d\\ud801\\udc3e\\ud801\\udc3f\\ud801\\udc40\\ud801\\udc41\\ud801\\udc42\\ud801\\udc43"
  \o "\\ud801\\udc44\\ud801\\udc45\\ud801\\udc46\\ud801\\udc47\\ud801\\udc48\\ud801\\udc49\\ud801\\udc4a\\ud801\\udc4b\\ud801\\udc4c\\ud801\\udc4d\\ud801\\udc4e\\ud801\\udc4f\\ud801\\udcb0\\ud801\\udcb1\\ud801\\udcb2\\ud801\\udcb3"
  \o "\\ud801\\udcb4\\ud801\\udcb5\\ud801\\udcb6\\ud801\\udcb7\\ud801\\udcb8\\ud801\\udcb9\\ud801\\udcba\\ud801\\udcbb\\ud801\\udcbc\\ud801\\udcbd\\ud801\\udcbe\\ud801\\udcbf\\ud801\\udcc0\\ud801\\udcc1\\ud801\\udcc2\\ud801\\udcc3"
  \o "\\ud801\\udcc4\\ud801\\udcc5\\ud801\\udcc6\\ud801\\udcc7\\ud801\\udcc8\\ud801\\udcc9\\ud801\\udcca\\ud801\\udccb\\ud801\\udccc\\ud801\\udccd\\ud801\\udcce\\ud801\\udccf\\ud801\\udcd0\\ud801\\udcd1\\ud801\\udcd2\\ud801\\udcd3"
  \o "\\ud801\\udcd8\\ud801\\udcd9\\ud801\\udcda\\ud801\\udcdb\\ud801\\udcdc\\ud801\\udcdd\\ud801\\udcde\\ud801\\udcdf\\ud801\\udce0\\ud801\\udce1\\ud801\\udce2\\ud801\\udce3\\ud801\\udce4\\ud801\\udce5\\ud801\\udce6\\ud801\\udce7"
  \o "\\ud801\\udce8\\ud801\\udce9\\ud801\\udcea\\ud801\\udceb\\ud801\\udcec\\ud801\\udced\\ud801\\udcee\\ud801\\udcef\\ud801\\udcf0\\ud801\\udcf1\\ud801\\udcf2\\ud801\\udcf3\\ud801\\udcf4\\ud801\\udcf5\\ud801\\udcf6\\ud801\\udcf7"
  \o "\\ud801\\udcf8\\ud801\\udcf9\\ud801\\udcfa\\ud801\\udcfb\\ud801\\udd70\\ud801\\udd71\\ud801\\udd72\\ud801\\udd73\\ud801\\udd74\\ud801\\udd75\\ud801\\udd76\\ud801\\udd77\\ud801\\udd78\\ud801\\udd79\\ud801\\udd7a\\ud801\\udd7c"
  \o "\\ud801\\udd7d\\ud801\\udd7e\\ud801\\udd7f\\ud801\\udd80\\ud801\\udd81\\ud801\\udd82\\ud801\\udd83\\ud801\\udd84\\ud801\\udd85\\ud801\\udd86\\ud801\\udd87\\ud801\\udd88\\ud801\\udd89\\ud801\\udd8a\\ud801\\udd8c\\ud801\\udd8d"
  \o "\\ud801\\udd8e\\ud801\\udd8f\\ud801\\udd90\\ud801\\udd91\\ud801\\udd92\\ud801\\udd94\\ud801\\udd95\\ud801\\udd97\\ud801\\udd98\\ud801\\udd99\\ud801\\udd9a\\ud801\\udd9b\\ud801\\udd9c\\ud801\\udd9d\\ud801\\udd9e\\ud801\\udd9f"
  \o "\\ud801\\udda0\\ud801\\udda1\\ud801\\udda3\\ud801\\udda4\\ud801\\udda5\\ud801\\udda6\\ud801\\udda7\\ud801\\udda8\\ud801\\udda9\\ud801\\uddaa\\ud801\\uddab\\ud801\\uddac\\ud801\\uddad\\ud801\\uddae\\ud801\\uddaf\\ud801\\uddb0"
  \o "\\ud801\\uddb1\\ud801\\uddb3\\ud801\\uddb4\\ud801\\uddb5\\ud801\\uddb6\\ud801\\uddb7\\ud801\\uddb8\\ud801\\uddb9\\ud801\\uddbb\\ud801\\uddbc\\ud803\\udc80\\ud803\\udc81\\ud803\\udc82\\ud803\\udc83\\ud803\\udc84\\ud803\\udc85"
  \o "\\ud803\\udc86\\ud803\\udc87\\ud803\\udc88\\ud803\\udc89\\ud803\\udc8a\\ud803\\udc8b\\ud803\\udc8c\\ud803\\udc8d\\ud803\\udc8e\\ud803\\udc8f\\ud803\\udc90\\ud803\\udc91\\ud803\\udc92\\ud803\\udc93\\ud803\\udc94\\ud803\\udc95"
  \o "\\ud803\\udc96\\ud803\\udc97\\ud803\\udc98\\ud803\\udc99\\ud803\\udc9a\\ud803\\udc9b\\ud803\\udc9c\\ud803\\udc9d\\ud803\\udc9e\\ud803\\udc9f\\ud803\\udca0\\ud803\\udca1\\ud803\\udca2\\ud803\\udca3\\ud803\\udca4\\ud803\\udca5"
  \o "\\ud803\\udca6\\ud803\\udca7\\ud803\\udca8\\ud803\\udca9\\ud803\\udcaa\\ud803\\udcab\\ud803\\udcac\\ud803\\udcad\\ud803\\udcae\\ud803\\udcaf\\ud803\\udcb0\\ud803\\udcb1\\ud803\\udcb2\\ud803\\udcc0\\ud803\\udcc1\\ud803\\udcc2"
  \o "\\ud803\\udcc3\\ud803\\udcc4\\ud803\\udcc5\\ud803\\udcc6\\ud803\\udcc7\\ud803\\udcc8\\ud803\\udcc9\\ud803\\udcca\\ud803\\udccb\\ud803\\udccc\\ud803\\udccd\\ud803\\udcce\\ud803\\udccf\\ud803\\udcd0\\ud803\\udcd1\\ud803\\udcd2"
  \o "\\ud803\\udcd3\\ud803\\udcd4\\ud803\\udcd5\\ud803\\udcd6\\ud803\\udcd7\\ud803\\udcd8\\ud803\\udcd9\\ud803\\udcda\\ud803\\udcdb\\ud803\\udcdc\\ud803\\udcdd\\ud803\\udcde\\ud803\\udcdf\\ud803\\udce0\\ud803\\udce1\\ud803\\udce2"
  \o "\\ud803\\udce3\\ud803\\udce4\\ud803\\udce5\\ud803\\udce6\\ud803\\udce7\\ud803\\udce8\\ud803\\udce9\\ud803\\udcea\\ud803\\udceb\\ud803\\udcec\\ud803\\udced\\ud803\\udcee\\ud803\\udcef\\ud803\\udcf0\\ud803\\udcf1\\ud803\\udcf2"
  \o "\\ud803\\udd50\\ud803\\udd51\\ud803\\udd52\\ud803\\udd53\\ud803\\udd54\\ud803\\udd55\\ud803\\udd56\\ud803\\udd57\\ud803\\udd58\\ud803\\udd59\\ud803\\udd5a\\ud803\\udd5b\\ud803\\udd5c\\ud803\\udd5d\\ud803\\udd5e\\ud803\\udd5f"
  \o "\\ud803\\udd60\\ud803\\udd61\\ud803\\udd62\\ud803\\udd63\\ud803\\udd64\\ud803\\udd65\\ud803\\udd70\\ud803\\udd71\\ud803\\udd72\\ud803\\udd73\\ud803\\udd74\\ud803\\udd75\\ud803\\udd76\\ud803\\udd77\\ud803\\udd78\\ud803\\udd79"
  \o "\\ud803\\udd7a\\ud803\\udd7b\\ud803\\udd7c\\ud803\\udd7d\\ud803\\udd7e\\ud803\\udd7f\\ud803\\udd80\\ud803\\udd81\\ud803\\udd82\\ud803\\udd83\\ud803\\udd84\\ud803\\udd85\\ud806\\udca0\\ud806\\udca1\\ud806\\udca2\\ud806\\udca3"
  \o "\\ud806\\udca4\\ud806\\udca5\\ud806\\udca6\\ud806\\udca7\\ud806\\udca8\\ud806\\udca9\\ud806\\udcaa\\ud806\\udcab\\ud806\\udcac\\ud806\\udcad\\ud806\\udcae\\ud806\\udcaf\\ud806\\udcb0\\ud806\\udcb1\\ud806\\udcb2\\ud806\\udcb3"
  \o "\\ud806\\udcb4\\ud806\\udcb5\\ud806\\udcb6\\ud806\\udcb7\\ud806\\udcb8\\ud806\\udcb9\\ud806\\udcba\\ud806\\udcbb\\ud806\\udcbc\\ud806\\udcbd\\ud806\\udcbe\\ud806\\udcbf\\ud806\\udcc0\\ud806\\udcc1\\ud806\\udcc2\\ud806\\udcc3"
  \o "\\ud806\\udcc4\\ud806\\udcc5\\ud806\\udcc6\\ud806\\udcc7\\ud806\\udcc8\\ud806\\udcc9\\ud806\\udcca\\ud806\\udccb\\ud806\\udccc\\ud806\\udccd\\ud806\\udcce\\ud806\\udccf\\ud806\\udcd0\\ud806\\udcd1\\ud806\\udcd2\\ud806\\udcd3"
  \o "\\ud806\\udcd4\\ud806\\udcd5\\ud806\\udcd6\\ud806\\udcd7\\ud806\\udcd8\\ud806\\udcd9\\ud806\\udcda\\ud806\\udcdb\\ud806\\udcdc\\ud806\\udcdd\\ud806\\udcde\\ud806\\udcdf\\ud81b\\ude40\\ud81b\\ude41\\ud81b\\ude42\\ud81b\\ude43"
  \o "\\ud81b\\ude44\\ud81b\\ude45\\ud81b\\ude46\\ud81b\\ude47\\ud81b\\ude48\\ud81b\\ude49\\ud81b\\ude4a\\ud81b\\ude4b\\ud81b\\ude4c\\ud81b\\ude4d\\ud81b\\ude4e\\ud81b\\ude4f\\ud81b\\ude50\\ud81b\\ude51\\ud81b\\ude52\\ud81b\\ude53"
  \o "\\ud81b\\ude54\\ud81b\\ude55\\ud81b\\ude56\\ud81b\\ude57\\ud81b\\ude58\\ud81b\\ude59\\ud81b\\ude5a\\ud81b\\ude5b\\ud81b\\ude5c\\ud81b\\ude5d\\ud81b\\ude5e\\ud81b\\ude5f\\ud81b\\ude60\\ud81b\\ude61\\ud81b\\ude62\\ud81b\\ude63"
  \o "\\ud81b\\ude64\\ud81b\\ude65\\ud81b\\ude66\\ud81b\\ude67\\ud81b\\ude68\\ud81b\\ude69\\ud81b\\ude6a\\ud81b\\ude6b\\ud81b\\ude6c\\ud81b\\ude6d\\ud81b\\ude6e\\ud81b\\ude6f\\ud81b\\ude70\\ud81b\\ude71\\ud81b\\ude72\\ud81b\\ude73"
  \o "\\ud81b\\ude74\\ud81b\\ude75\\ud81b\\ude76\\ud81b\\ude77\\ud81b\\ude78\\ud81b\\ude79\\ud81b\\ude7a\\ud81b\\ude7b\\ud81b\\ude7c\\ud81b\\ude7d\\ud81b\\ude7e\\ud81b\\ude7f\\ud81b\\udea0\\ud81b\\udea1\\ud81b\\udea2\\ud81b\\udea3"
  \o "\\ud81b\\udea4\\ud81b\\udea5\\ud81b\\udea6\\ud81b\\udea7\\ud81b\\udea8\\ud81b\\udea9\\ud81b\\udeaa\\ud81b\\udeab\\ud81b\\udeac\\ud81b\\udead\\ud81b\\udeae\\ud81b\\udeaf\\ud81b\\udeb0\\ud81b\\udeb1\\ud81b\\udeb2\\ud81b\\udeb3"
  \o "\\ud81b\\udeb4\\ud81b\\udeb5\\ud81b\\udeb6\\ud81b\\udeb7\\ud81b\\udeb8\\ud81b\\udebb\\ud81b\\udebc\\ud81b\\udebd\\ud81b\\udebe\\ud81b\\udebf\\ud81b\\udec0\\ud81b\\udec1\\ud81b\\udec2\\ud81b\\udec3\\ud81b\\udec4\\ud81b\\udec5"
  \o "\\ud81b\\udec6\\ud81b\\udec7\\ud81b\\udec8\\ud81b\\udec9\\ud81b\\udeca\\ud81b\\udecb\\ud81b\\udecc\\ud81b\\udecd\\ud81b\\udece\\ud81b\\udecf\\ud81b\\uded0\\ud81b\\uded1\\ud81b\\uded2\\ud81b\\uded3\\ud835\\udc00\\ud835\\udc01"
  \o "\\ud835\\udc02\\ud835\\udc03\\ud835\\udc04\\ud835\\udc05\\ud835\\udc06\\ud835\\udc07\\ud835\\udc08\\ud835\\udc09\\ud835\\udc0a\\ud835\\udc0b\\ud835\\udc0c\\ud835\\udc0d\\ud835\\udc0e\\ud835\\udc0f\\ud835\\udc10\\ud835\\udc11"
  \o "\\ud835\\udc12\\ud835\\udc13\\ud835\\udc14\\ud835\\udc15\\ud835\\udc16\\ud835\\udc17\\ud835\\udc18\\ud835\\udc19\\ud835\\udc1a\\ud835\\udc1b\\ud835\\udc1c\\ud835\\udc1d\\ud835\\udc1e\\ud835\\udc1f\\ud835\\udc20\\ud835\\udc21"
  \o "\\ud835\\udc22\\ud835\\udc23\\ud835\\udc24\\ud835\\udc25\\ud835\\udc26\\ud835\\udc27\\ud835\\udc28\\ud835\\udc29\\ud835\\udc2a\\ud835\\udc2b\\ud835\\udc2c\\ud835\\udc2d\\ud835\\udc2e\\ud835\\udc2f\\ud835\\udc30\\ud835\\udc31"
  \o "\\ud835\\udc32\\ud835\\udc33\\ud835\\udc34\\ud835\\udc35\\ud835\\udc36\\ud835\\udc37\\ud835\\udc38\\ud835\\udc39\\ud835\\udc3a\\ud835\\udc3b\\ud835\\udc3c\\ud835\\udc3d\\ud835\\udc3e\\ud835\\udc3f\\ud835\\udc40\\ud835\\udc41"
  \o "\\ud835\\udc42\\ud835\\udc43\\ud835\\udc44\\ud835\\udc45\\ud835\\udc46\\ud835\\udc47\\ud835\\udc48\\ud835\\udc49\\ud835\\udc4a\\ud835\\udc4b\\ud835\\udc4c\\ud835\\udc4d\\ud835\\udc4e\\ud835\\udc4f\\ud835\\udc50\\ud835\\udc51"
  \o "\\ud835\\udc52\\ud835\\udc53\\ud835\\udc54\\ud835\\udc56\\ud835\\udc57\\ud835\\udc58\\ud835\\udc59\\ud835\\udc5a\\ud835\\udc5b\\ud835\\udc5c\\ud835\\udc5d\\ud835\\udc5e\\ud835\\udc5f\\ud835\\udc60\\ud835\\udc61\\ud835\\udc62"
  \o "\\ud835\\udc63\\ud835\\udc64\\ud835\\udc65\\ud835\\udc66\\ud835\\udc67\\ud835\\udc68\\ud835\\udc69\\ud835\\udc6a\\ud835\\udc6b\\ud835\\udc6c\\ud835\\udc6d\\ud835\\udc6e\\ud835\\udc6f\\ud835\\udc70\\ud835\\udc71\\ud835\\udc72"
  \o "\\ud835\\udc73\\ud835\\udc74\\ud835\\udc75\\ud835\\udc76\\ud835\\udc77\\ud835\\udc78\\ud835\\udc79\\ud835\\udc7a\\ud835\\udc7b\\ud835\\udc7c\\ud835\\udc7d\\ud835\\udc7e\\ud835\\udc7f\\ud835\\udc80\\ud835\\udc81\\ud835\\udc82"
  \o "\\ud835\\udc83\\ud835\\udc84\\ud835\\udc85\\ud835\\udc86\\ud835\\udc87\\ud835\\udc88\\ud835\\udc89\\ud835\\udc8a\\ud835\\udc8b\\ud835\\udc8c\\ud835\\udc8d\\ud835\\udc8e\\ud835\\udc8f\\ud835\\udc90\\ud835\\udc91\\ud835\\udc92"
  \o "\\ud835\\udc93\\ud835\\udc94\\ud835\\udc95\\ud835\\udc96\\ud835\\udc97\\ud835\\udc98\\ud835\\udc99\\ud835\\udc9a\\ud835\\udc9b\\ud835\\udc9c\\ud835\\udc9e\\ud835\\udc9f\\ud835\\udca2\\ud835\\udca5\\ud835\\udca6\\ud835\\udca9"
  \o "\\ud835\\udcaa\\ud835\\udcab\\ud835\\udcac\\ud835\\udcae\\ud835\\udcaf\\ud835\\udcb0\\ud835\\udcb1\\ud835\\udcb2\\ud835\\udcb3\\ud835\\udcb4\\ud835\\udcb5\\ud835\\udcb6\\ud835\\udcb7\\ud835\\udcb8\\ud835\\udcb9\\ud835\\udcbb"
  \o "\\ud835\\udcbd\\ud835\\udcbe\\ud835\\udcbf\\ud835\\udcc0\\ud835\\udcc1\\ud835\\udcc2\\ud835\\udcc3\\ud835\\udcc5\\ud835\\udcc6\\ud835\\udcc7\\ud835\\udcc8\\ud835\\udcc9\\ud835\\udcca\\ud835\\udccb\\ud835\\udccc\\ud835\\udccd"
  \o "\\ud835\\udcce\\ud835\\udccf\\ud835\\udcd0\\ud835\\udcd1\\ud835\\udcd2\\ud835\\udcd3\\ud835\\udcd4\\ud835\\udcd5\\ud835\\udcd6\\ud835\\udcd7\\ud835\\udcd8\\ud835\\udcd9\\ud835\\udcda\\ud835\\udcdb\\ud835\\udcdc\\ud835\\udcdd"
  \o "\\ud835\\udcde\\ud835\\udcdf\\ud835\\udce0\\ud835\\udce1\\ud835\\udce2\\ud835\\udce3\\ud835\\udce4\\ud835\\udce5\\ud835\\udce6\\ud835\\udce7\\ud835\\udce8\\ud835\\udce9\\ud835\\udcea\\ud835\\udceb\\ud835\\udcec\\ud835\\udced"
  \o "\\ud835\\udcee\\ud835\\udcef\\ud835\\udcf0\\ud835\\udcf1\\ud835\\udcf2\\ud835\\udcf3\\ud835\\udcf4\\ud835\\udcf5\\ud835\\udcf6\\ud835\\udcf7\\ud835\\udcf8\\ud835\\udcf9\\ud835\\udcfa\\ud835\\udcfb\\ud835\\udcfc\\ud835\\udcfd"
  \o "\\ud835\\udcfe\\ud835\\udcff\\ud835\\udd00\\ud835\\udd01\\ud835\\udd02\\ud835\\udd03\\ud835\\udd04\\ud835\\udd05\\ud835\\udd07\\ud835\\udd08\\ud835\\udd09\\ud835\\udd0a\\ud835\\udd0d\\ud835\\udd0e\\ud835\\udd0f\\ud835\\udd10"
  \o "\\ud835\\udd11\\ud835\\udd12\\ud835\\udd13\\ud835\\udd14\\ud835\\udd16\\ud835\\udd17\\ud835\\udd18\\ud835\\udd19\\ud835\\udd1a\\ud835\\udd1b\\ud835\\udd1c\\ud835\\udd1e\\ud835\\udd1f\\ud835\\udd20\\ud835\\udd21\\ud835\\udd22"
  \o "\\ud835\\udd23\\ud835\\udd24\\ud835\\udd25\\ud835\\udd26\\ud835\\udd27\\ud835\\udd28\\ud835\\udd29\\ud835\\udd2a\\ud835\\udd2b\\ud835\\udd2c\\ud835\\udd2d\\ud835\\udd2e\\ud835\\udd2f\\ud835\\udd30\\ud835\\udd31\\ud835\\udd32"
  \o "\\ud835\\udd33\\ud835\\udd34\\ud835\\udd35\\ud835\\udd36\\ud835\\udd37\\ud835\\udd38\\ud835\\udd39\\ud835\\udd3b\\ud835\\udd3c\\ud835\\udd3d\\ud835\\udd3e\\ud835\\udd40\\ud835\\udd41\\ud835\\udd42\\ud835\\udd43\\ud835\\udd44"
  \o "\\ud835\\udd46\\ud835\\udd4a\\ud835\\udd4b\\ud835\\udd4c\\ud835\\udd4d\\ud835\\udd4e\\ud835\\udd4f\\ud835\\udd50\\ud835\\udd52\\ud835\\udd53\\ud835\\udd54\\ud835\\udd55\\ud835\\udd56\\ud835\\udd57\\ud835\\udd58\\ud835\\udd59"
  \o "\\ud835\\udd5a\\ud835\\udd5b\\ud835\\udd5c\\ud835\\udd5d\\ud835\\udd5e\\ud835\\udd5f\\ud835\\udd60\\ud835\\udd61\\ud835\\udd62\\ud835\\udd63\\ud835\\udd64\\ud835\\udd65\\ud835\\udd66\\ud835\\udd67\\ud835\\udd68\\ud835\\udd69"
  \o "\\ud835\\udd6a\\ud835\\udd6b\\ud835\\udd6c\\ud835\\udd6d\\ud835\\udd6e\\ud835\\udd6f\\ud835\\udd70\\ud835\\udd71\\ud835\\udd72\\ud835\\udd73\\ud835\\udd74\\ud835\\udd75\\ud835\\udd76\\ud835\\udd77\\ud835\\udd78\\ud835\\udd79"
  \o "\\ud835\\udd7a\\ud835\\udd7b\\ud835\\udd7c\\ud835\\udd7d\\ud835\\udd7e\\ud835\\udd7f\\ud835\\udd80\\ud835\\udd81\\ud835\\udd82\\ud835\\udd83\\ud835\\udd84\\ud835\\udd85\\ud835\\udd86\\ud835\\udd87\\ud835\\udd88\\ud835\\udd89"
  \o "\\ud835\\udd8a\\ud835\\udd8b\\ud835\\udd8c\\ud835\\udd8d\\ud835\\udd8e\\ud835\\udd8f\\ud835\\udd90\\ud835\\udd91\\ud835\\udd92\\ud835\\udd93\\ud835\\udd94\\ud835\\udd95\\ud835\\udd96\\ud835\\udd97\\ud835\\udd98\\ud835\\udd99"
  \o "\\ud835\\udd9a\\ud835\\udd9b\\ud835\\udd9c\\ud835\\udd9d\\ud835\\udd9e\\ud835\\udd9f\\ud835\\udda0\\ud835\\udda1\\ud835\\udda2\\ud835\\udda3\\ud835\\udda4\\ud835\\udda5\\ud835\\udda6\\ud835\\udda7\\ud835\\udda8\\ud835\\udda9"
  \o "\\ud835\\uddaa\\ud835\\uddab\\ud835\\uddac\\ud835\\uddad\\ud835\\uddae\\ud835\\uddaf\\ud835\\uddb0\\ud835\\uddb1\\ud835\\uddb2\\ud835\\uddb3\\ud835\\uddb4\\ud835\\uddb5\\ud835\\uddb6\\ud835\\uddb7\\ud835\\uddb8\\ud835\\uddb9"
  \o "\\ud835\\uddba\\ud835\\uddbb\\ud835\\uddbc\\ud835\\uddbd\\ud835\\uddbe\\ud835\\uddbf\\ud835\\uddc0\\ud835\\uddc1\\ud835\\uddc2\\ud835\\uddc3\\ud835\\uddc4\\ud835\\uddc5\\ud835\\uddc6\\ud835\\uddc7\\ud835\\uddc8\\ud835\\uddc9"
  \o "\\ud835\\uddca\\ud835\\uddcb\\ud835\\uddcc\\ud835\\uddcd\\ud835\\uddce\\ud835\\uddcf\\ud835\\uddd0\\ud835\\uddd1\\ud835\\uddd2\\ud835\\uddd3\\ud835\\uddd4\\ud835\\uddd5\\ud835\\uddd6\\ud835\\uddd7\\ud835\\uddd8\\ud835\\uddd9"
  \o "\\ud835\\uddda\\ud835\\udddb\\ud835\\udddc\\ud835\\udddd\\ud835\\uddde\\ud835\\udddf\\ud835\\udde0\\ud835\\udde1\\ud835\\udde2\\ud835\\udde3\\ud835\\udde4\\ud835\\udde5\\ud835\\udde6\\ud835\\udde7\\ud835\\udde8\\ud835\\udde9"
  \o "\\ud835\\uddea\\ud835\\uddeb\\ud835\\uddec\\ud835\\udded\\ud835\\uddee\\ud835\\uddef\\ud835\\uddf0\\ud835\\uddf1\\ud835\\uddf2\\ud835\\uddf3\\ud835\\uddf4\\ud835\\uddf5\\ud835\\uddf6\\ud835\\uddf7\\ud835\\uddf8\\ud835\\uddf9"
  \o "\\ud835\\uddfa\\ud835\\uddfb\\ud835\\uddfc\\ud835\\uddfd\\ud835\\uddfe\\ud835\\uddff\\ud835\\ude00\\ud835\\ude01\\ud835\\ude02\\ud835\\ude03\\ud835\\ude04\\ud835\\ude05\\ud835\\ude06\\ud835\\ude07\\ud835\\ude08\\ud835\\ude09"
  \o "\\ud835\\ude0a\\ud835\\ude0b\\ud835\\ude0c\\ud835\\ude0d\\ud835\\ude0e\\ud835\\ude0f\\ud835\\ude10\\ud835\\ude11\\ud835\\ude12\\ud835\\ude13\\ud835\\ude14\\ud835\\ude15\\ud835\\ude16\\ud835\\ude17\\ud835\\ude18\\ud835\\ude19"
  \o "\\ud835\\ude1a\\ud835\\ude1b\\ud835\\ude1c\\ud835\\ude1d\\ud835\\ude1e\\ud835\\ude1f\\ud835\\ude20\\ud835\\ude21\\ud835\\ude22\\ud835\\ude23\\ud835\\ude24\\ud835\\ude25\\ud835\\ude26\\ud835\\ude27\\ud835\\ude28\\ud835\\ude29"
  \o "\\ud835\\ude2a\\ud835\\ude2b\\ud835\\ude2c\\ud835\\ude2d\\ud835\\ude2e\\ud835\\ude2f\\ud835\\ude30\\ud835\\ude31\\ud835\\ude32\\ud835\\ude33\\ud835\\ude34\\ud835\\ude35\\ud835\\ude36\\ud835\\ude37\\ud835\\ude38\\ud835\\ude39"
  \o "\\ud835\\ude3a\\ud835\\ude3b\\ud835\\ude3c\\ud835\\ude3d\\ud835\\ude3e\\ud835\\ude3f\\ud835\\ude40\\ud835\\ude41\\ud835\\ude42\\ud835\\ude43\\ud835\\ude44\\ud835\\ude45\\ud835\\ude46\\ud835\\ude47\\ud835\\ude48\\ud835\\ude49"
  \o "\\ud835\\ude4a\\ud835\\ude4b\\ud835\\ude4c\\ud835\\ude4d\\ud835\\ude4e\\ud835\\ude4f\\ud835\\ude50\\ud835\\ude51\\ud835\\ude52\\ud835\\ude53\\ud835\\ude54\\ud835\\ude55\\ud835\\ude56\\ud835\\ude57\\ud835\\ude58\\ud835\\ude59"
  \o "\\ud835\\ude5a\\ud835\\ude5b\\ud835\\ude5c\\ud835\\ude5d\\ud835\\ude5e\\ud835\\ude5f\\ud835\\ude60\\ud835\\ude61\\ud835\\ude62\\ud835\\ude63\\ud835\\ude64\\ud835\\ude65\\ud835\\ude66\\ud835\\ude67\\ud835\\ude68\\ud835\\ude69"
  \o "\\ud835\\ude6a\\ud835\\ude6b\\ud835\\ude6c\\ud835\\ude6d\\ud835\\ude6e\\ud835\\ude6f\\ud835\\ude70\\ud835\\ude71\\ud835\\ude72\\ud835\\ude73\\ud835\\ude74\\ud835\\ude75\\ud835\\ude76\\ud835\\ude77\\ud835\\ude78\\ud835\\ude79"
  \o "\\ud835\\ude7a\\ud835\\ude7b\\ud835\\ude7c\\ud835\\ude7d\\ud835\\ude7e\\ud835\\ude7f\\ud835\\ude80\\ud835\\ude81\\ud835\\ude82\\ud835\\ude83\\ud835\\ude84\\ud835\\ude85\\ud835\\ude86\\ud835\\ude87\\ud835\\ude88\\ud835\\ude89"
  \o "\\ud835\\ude8a\\ud835\\ude8b\\ud835\\ude8c\\ud835\\ude8d\\ud835\\ude8e\\ud835\\ude8f\\ud835\\ude90\\ud835\\ude91\\ud835\\ude92\\ud835\\ude93\\ud835\\ude94\\ud835\\ude95\\ud835\\ude96\\ud835\\ude97\\ud835\\ude98\\ud835\\ude99"
  \o "\\ud835\\ude9a\\ud835\\ude9b\\ud835\\ude9c\\ud835\\ude9d\\ud835\\ude9e\\ud835\\ude9f\\ud835\\udea0\\ud835\\udea1\\ud835\\udea2\\ud835\\udea3\\ud835\\udea4\\ud835\\udea5\\ud835\\udea8\\ud835\\udea9\\ud835\\udeaa\\ud835\\udeab"
  \o "\\ud835\\udeac\\ud835\\udead\\ud835\\udeae\\ud835\\udeaf\\ud835\\udeb0\\ud835\\udeb1\\ud835\\udeb2\\ud835\\udeb3\\ud835\\udeb4\\ud835\\udeb5\\ud835\\udeb6\\ud835\\udeb7\\ud835\\udeb8\\ud835\\udeb9\\ud835\\udeba\\ud835\\udebb"
  \o "\\ud835\\udebc\\ud835\\udebd\\ud835\\udebe\\ud835\\udebf\\ud835\\udec0\\ud835\\udec2\\ud835\\udec3\\ud835\\udec4\\ud835\\udec5\\ud835\\udec6\\ud835\\udec7\\ud835\\udec8\\ud835\\udec9\\ud835\\udeca\\ud835\\udecb\\ud835\\udecc"
  \o "\\ud835\\udecd\\ud835\\udece\\ud835\\udecf\\ud835\\uded0\\ud835\\uded1\\ud835\\uded2\\ud835\\uded3\\ud835\\uded4\\ud835\\uded5\\ud835\\uded6\\ud835\\uded7\\ud835\\uded8\\ud835\\uded9\\ud835\\udeda\\ud835\\udedc\\ud835\\udedd"
  \o "\\ud835\\udede\\ud835\\udedf\\ud835\\udee0\\ud835\\udee1\\ud835\\udee2\\ud835\\udee3\\ud835\\udee4\\ud835\\udee5\\ud835\\udee6\\ud835\\udee7\\ud835\\udee8\\ud835\\udee9\\ud835\\udeea\\ud835\\udeeb\\ud835\\udeec\\ud835\\udeed"
  \o "\\ud835\\udeee\\ud835\\udeef\\ud835\\udef0\\ud835\\udef1\\ud835\\udef2\\ud835\\udef3\\ud835\\udef4\\ud835\\udef5\\ud835\\udef6\\ud835\\udef7\\ud835\\udef8\\ud835\\udef9\\ud835\\udefa\\ud835\\udefc\\ud835\\udefd\\ud835\\udefe"
  \o "\\ud835\\udeff\\ud835\\udf00\\ud835\\udf01\\ud835\\udf02\\ud835\\udf03\\ud835\\udf04\\ud835\\udf05\\ud835\\udf06\\ud835\\udf07\\ud835\\udf08\\ud835\\udf09\\ud835\\udf0a\\ud835\\udf0b\\ud835\\udf0c\\ud835\\udf0d\\ud835\\udf0e"
  \o "\\ud835\\udf0f\\ud835\\udf10\\ud835\\udf11\\ud835\\udf12\\ud835\\udf13\\ud835\\udf14\\ud835\\udf16\\ud835\\udf17\\ud835\\udf18\\ud835\\udf19\\ud835\\udf1a\\ud835\\udf1b\\ud835\\udf1c\\ud835\\udf1d\\ud835\\udf1e\\ud835\\udf1f"
  \o "\\ud835\\udf20\\ud835\\udf21\\ud835\\udf22\\ud835\\udf23\\ud835\\udf24\\ud835\\udf25\\ud835\\udf26\\ud835\\udf27\\ud835\\udf28\\ud835\\udf29\\ud835\\udf2a\\ud835\\udf2b\\ud835\\udf2c\\ud835\\udf2d\\ud835\\udf2e\\ud835\\udf2f"
  \o "\\ud835\\udf30\\ud835\\udf31\\ud835\\udf32\\ud835\\udf33\\ud835\\udf34\\ud835\\udf36\\ud835\\udf37\\ud835\\udf38\\ud835\\udf39\\ud835\\udf3a\\ud835\\udf3b\\ud835\\udf3c\\ud835\\udf3d\\ud835\\udf3e\\ud835\\udf3f\\ud835\\udf40"
  \o "\\ud835\\udf41\\ud835\\udf42\\ud835\\udf43\\ud835\\udf44\\ud835\\udf45\\ud835\\udf46\\ud835\\udf47\\ud835\\udf48\\ud835\\udf49\\ud835\\udf4a\\ud835\\udf4b\\ud835\\udf4c\\ud835\\udf4d\\ud835\\udf4e\\ud835\\udf50\\ud835\\udf51"
  \o "\\ud835\\udf52\\ud835\\udf53\\ud835\\udf54\\ud835\\udf55\\ud835\\udf56\\ud835\\udf57\\ud835\\udf58\\ud835\\udf59\\ud835\\udf5a\\ud835\\udf5b\\ud835\\udf5c\\ud835\\udf5d\\ud835\\udf5e\\ud835\\udf5f\\ud835\\udf60\\ud835\\udf61"
  \o "\\ud835\\udf62\\ud835\\udf63\\ud835\\udf64\\ud835\\udf65\\ud835\\udf66\\ud835\\udf67\\ud835\\udf68\\ud835\\udf69\\ud835\\udf6a\\ud835\\udf6b\\ud835\\udf6c\\ud835\\udf6d\\ud835\\udf6e\\ud835\\udf70\\ud835\\udf71\\ud835\\udf72"
  \o "\\ud835\\udf73\\ud835\\udf74\\ud835\\udf75\\ud835\\udf76\\ud835\\udf77\\ud835\\udf78\\ud835\\udf79\\ud835\\udf7a\\ud835\\udf7b\\ud835\\udf7c\\ud835\\udf7d\\ud835\\udf7e\\ud835\\udf7f\\ud835\\udf80\\ud835\\udf81\\ud835\\udf82"
  \o "\\ud835\\udf83\\ud835\\udf84\\ud835\\udf85\\ud835\\udf86\\ud835\\udf87\\ud835\\udf88\\ud835\\udf8a\\ud835\\udf8b\\ud835\\udf8c\\ud835\\udf8d\\ud835\\udf8e\\ud835\\udf8f\\ud835\\udf90\\ud835\\udf91\\ud835\\udf92\\ud835\\udf93"
  \o "\\ud835\\udf94\\ud835\\udf95\\ud835\\udf96\\ud835\\udf97\\ud835\\udf98\\ud835\\udf99\\ud835\\udf9a\\ud835\\udf9b\\ud835\\udf9c\\ud835\\udf9d\\ud835\\udf9e\\ud835\\udf9f\\ud835\\udfa0\\ud835\\udfa1\\ud835\\udfa2\\ud835\\udfa3"
  \o "\\ud835\\udfa4\\ud835\\udfa5\\ud835\\udfa6\\ud835\\udfa7\\ud835\\udfa8\\ud835\\udfaa\\ud835\\udfab\\ud835\\udfac\\ud835\\udfad\\ud835\\udfae\\ud835\\udfaf\\ud835\\udfb0\\ud835\\udfb1\\ud835\\udfb2\\ud835\\udfb3\\ud835\\udfb4"
  \o "\\ud835\\udfb5\\ud835\\udfb6\\ud835\\udfb7\\ud835\\udfb8\\ud835\\udfb9\\ud835\\udfba\\ud835\\udfbb\\ud835\\udfbc\\ud835\\udfbd\\ud835\\udfbe\\ud835\\udfbf\\ud835\\udfc0\\ud835\\udfc1\\ud835\\udfc2\\ud835\\udfc4\\ud835\\udfc5"
  \o "\\ud835\\udfc6\\ud835\\udfc7\\ud835\\udfc8\\ud835\\udfc9\\ud835\\udfca\\ud835\\udfcb\\ud837\\udf00\\ud837\\udf01\\ud837\\udf02\\ud837\\udf03\\ud837\\udf04\\ud837\\udf05\\ud837\\udf06\\ud837\\udf07\\ud837\\udf08\\ud837\\udf09"
  \o "\\ud837\\udf0b\\ud837\\udf0c\\ud837\\udf0d\\ud837\\udf0e\\ud837\\udf0f\\ud837\\udf10\\ud837\\udf11\\ud837\\udf12\\ud837\\udf13\\ud837\\udf14\\ud837\\udf15\\ud837\\udf16\\ud837\\udf17\\ud837\\udf18\\ud837\\udf19\\ud837\\udf1a"
  \o "\\ud837\\udf1b\\ud837\\udf1c\\ud837\\udf1d\\ud837\\udf1e\\ud837\\udf25\\ud837\\udf26\\ud837\\udf27\\ud837\\udf28\\ud837\\udf29\\ud837\\udf2a\\ud83a\\udd00\\ud83a\\udd01\\ud83a\\udd02\\ud83a\\udd03\\ud83a\\udd04\\ud83a\\udd05"
  \o "\\ud83a\\udd06\\ud83a\\udd07\\ud83a\\udd08\\ud83a\\udd09\\ud83a\\udd0a\\ud83a\\udd0b\\ud83a\\udd0c\\ud83a\\udd0d\\ud83a\\udd0e\\ud83a\\udd0f\\ud83a\\udd10\\ud83a\\udd11\\ud83a\\udd12\\ud83a\\udd13\\ud83a\\udd14\\ud83a\\udd15"
  \o "\\ud83a\\udd16\\ud83a\\udd17\\ud83a\\udd18\\ud83a\\udd19\\ud83a\\udd1a\\ud83a\\udd1b\\ud83a\\udd1c\\ud83a\\udd1d\\ud83a\\udd1e\\ud83a\\udd1f\\ud83a\\udd20\\ud83a\\udd21\\ud83a\\udd22\\ud83a\\udd23\\ud83a\\udd24\\ud83a\\udd25"
  \o "\\ud83a\\udd26\\ud83a\\udd27\\ud83a\\udd28\\ud83a\\udd29\\ud83a\\udd2a\\ud83a\\udd2b\\ud83a\\udd2c\\ud83a\\udd2d\\ud83a\\udd2e\\ud83a\\udd2f\\ud83a\\udd30\\ud83a\\udd31\\ud83a\\udd32\\ud83a\\udd33\\ud83a\\udd34\\ud83a\\udd35"
  \o "\\ud83a\\udd36\\ud83a\\udd37\\ud83a\\udd38\\ud83a\\udd39\\ud83a\\udd3a\\ud83a\\udd3b\\ud83a\\udd3c\\ud83a\\udd3d\\ud83a\\udd3e\\ud83a\\udd3f\\ud83a\\udd40\\ud83a\\udd41\\ud83a\\udd42\\ud83a\\udd43\\ud83c\\udd30\\ud83c\\udd31"
  \o "\\ud83c\\udd32\\ud83c\\udd33\\ud83c\\udd34\\ud83c\\udd35\\ud83c\\udd36\\ud83c\\udd37\\ud83c\\udd38\\ud83c\\udd39\\ud83c\\udd3a\\ud83c\\udd3b\\ud83c\\udd3c\\ud83c\\udd3d\\ud83c\\udd3e\\ud83c\\udd3f\\ud83c\\udd40\\ud83c\\udd41"
  \o "\\ud83c\\udd42\\ud83c\\udd43\\ud83c\\udd44\\ud83c\\udd45\\ud83c\\udd46\\ud83c\\udd47\\ud83c\\udd48\\ud83c\\udd49\\ud83c\\udd50\\ud83c\\udd51\\ud83c\\udd52\\ud83c\\udd53\\ud83c\\udd54\\ud83c\\udd55\\ud83c\\udd56\\ud83c\\udd57"
  \o "\\ud83c\\udd58\\ud83c\\udd59\\ud83c\\udd5a\\ud83c\\udd5b\\ud83c\\udd5c\\ud83c\\udd5d\\ud83c\\udd5e\\ud83c\\udd5f\\ud83c\\udd60\\ud83c\\udd61\\ud83c\\udd62\\ud83c\\udd63\\ud83c\\udd64\\ud83c\\udd65\\ud83c\\udd66\\ud83c\\udd67"
  \o "\\ud83c\\udd68\\ud83c\\udd69\\ud83c\\udd70\\ud83c\\udd71\\ud83c\\udd72\\ud83c\\udd73\\ud83c\\udd74\\ud83c\\udd75\\ud83c\\udd76\\ud83c\\udd77\\ud83c\\udd78\\ud83c\\udd79\\ud83c\\udd7a\\ud83c\\udd7b\\ud83c\\udd7c\\ud83c\\udd7d"
  \o "\\ud83c\\udd7e\\ud83c\\udd7f\\ud83c\\udd80\\ud83c\\udd81\\ud83c\\udd82\\ud83c\\udd83\\ud83c\\udd84\\ud83c\\udd85\\ud83c\\udd86\\ud83c\\udd87\\ud83c\\udd88\\ud83c\\udd89"

Cased ==
  {Cells(CasedTable, 2 * r - 1, 2 * r) : r \in Rows(CasedTable, 2)}

\* the code points with the property Case_Ignorable, two cells each
CaseIgnorableTable ==
  "'           .           :           ^           \\u0060      ¨           ­           ¯           ´           ·           ¸           ʰ           ʱ           ʲ           ʳ           ʴ           "
  \o "ʵ           ʶ           ʷ           ʸ           ʹ           ʺ           ʻ           ʼ           ʽ           ʾ           ʿ           ˀ           ˁ           ˂           ˃           ˄           "
  \o "˅           ˆ           ˇ           ˈ           ˉ           ˊ           ˋ           ˌ           ˍ           ˎ           ˏ           ː           ˑ           ˒           ˓           ˔           "
  \o "˕           ˖           ˗           ˘           ˙           ˚           ˛           ˜           ˝           ˞           ˟           ˠ           ˡ           ˢ           ˣ           ˤ           "
  \o "˥           ˦           ˧           ˨           ˩           ˪           ˫           ˬ           ˭           ˮ           ˯           ˰           ˱           ˲           ˳           ˴           "
  \o "˵           ˶           ˷           ˸           ˹           ˺           ˻           ˼           ˽           ˾           ˿           \\u0300      \\u0301      \\u0302      \\u0303      \\u0304      "
  \o "\\u0305      \\u0306      \\u0307      \\u0308      \\u0309      \\u030a      \\u030b      \\u030c      \\u030d      \\u030e      \\u030f      \\u0310      \\u0311      \\u0312      \\u0313      \\u0314      "
  \o "\\u0315      \\u0316      \\u0317      \\u0318      \\u0319      \\u031a      \\u031b      \\u031c      \\u031d      \\u031e      \\u031f      \\u0320      \\u0321      \\u0322      \\u0323      \\u0324      "
  \o "\\u0325      \\u0326      \\u0327      \\u0328      \\u0329      \\u032a      \\u032b      \\u032c      \\u032d      \\u032e      \\u032f      \\u0330      \\u0331      \\u0332      \\u0333      \\u0334      "
  \o "\\u0335      \\u0336      \\u0337      \\u0338      \\u0339      \\u033a      \\u033b      \\u033c      \\u033d      \\u033e      \\u033f      \\u0340      \\u0341      \\u0342      \\u0343      \\u0344      "
  \o "\\u0345      \\u0346      \\u0347      \\u0348      \\u0349      \\u034a      \\u034b      \\u034c      \\u034d      \\u034e      \\u034f      \\u0350      \\u0351      \\u0352      \\u0353      \\u0354      "
  \o "\\u0355      \\u0356      \\u0357      \\u0358      \\u0359      \\u035a      \\u035b      \\u035c      \\u035d      \\u035e      \\u035f      \\u0360      \\u0361      \\u0362      \\u0363      \\u0364      "
  \o "\\u0365      \\u0366      \\u0367      \\u0368      \\u0369      \\u036a      \\u036b      \\u036c      \\u036d      \\u036e      \\u036f      \\u0374      \\u0375      \\u037a      ΄           ΅           "
  \o "·           ҃           ҄           ҅           ҆           ҇           ҈           ҉           \\u0559      \\u055f      ֑           ֒           ֓           ֔           ֕           ֖           "
  \o "֗           ֘           ֙           ֚           ֛           ֜           ֝           ֞           ֟           ֠           ֡           ֢           ֣           ֤           ֥           ֦           "
  \o "֧           ֨           ֩           ֪           ֫           ֬           ֭           ֮           ֯           ְ           ֱ           ֲ           ֳ           ִ           ֵ           ֶ           "
  \o "ַ           ָ           ֹ           ֺ           ֻ           ּ           ֽ           ֿ           ׁ           ׂ           ׄ           ׅ           ׇ           ״           \\u0600      \\u0601      "
  \o "\\u0602      \\u0603      \\u0604      \\u0605      \\u0610      \\u0611      \\u0612      \\u0613      \\u0614      \\u0615      \\u0616      \\u0617      \\u0618      \\u0619      \\u061a      \\u061c      "
  \o "\\u0640      \\u064b      \\u064c      \\u064d      \\u064e      \\u064f      \\u0650      \\u0651      \\u0652      \\u0653      \\u0654      \\u0655      \\u0656      \\u0657      \\u0658      \\u0659      "
  \o "\\u065a      \\u065b      \\u065c      \\u065d      \\u065e      \\u065f      \\u0670      ۖ           ۗ           ۘ           ۙ           ۚ           ۛ           ۜ           ۝           ۟           "
  \o "۠           ۡ           ۢ           ۣ           ۤ           ۥ           ۦ           ۧ           ۨ           ۪           ۫           ۬           ۭ           \\u070f      \\u0711      \\u0730      "
  \o "\\u0731      \\u0732      \\u0733      \\u0734      \\u0735      \\u0736      \\u0737      \\u0738      \\u0739      \\u073a      \\u073b      \\u073c      \\u073d      \\u073e      \\u073f      \\u0740      "
  \o "\\u0741      \\u0742      \\u0743      \\u0744      \\u0745      \\u0746      \\u0747      \\u0748      \\u0749      \\u074a      ަ           ާ           ި           ީ           ު           ޫ           "
  \o "ެ           ޭ           ޮ           ޯ           ް           ߫           ߬           ߭           ߮           ߯           ߰           ߱           ߲           ߳           ߴ           ߵ           "
  \o "ߺ           ߽           \\u0816      \\u0817      \\u0818      \\u0819      \\u081a      \\u081b      \\u081c      \\u081d      \\u081e      \\u081f      \\u0820      \\u0821      \\u0822      \\u0823      "
  \o "\\u0824      \\u0825      \\u0826      \\u0827      \\u0828      \\u0829      \\u082a      \\u082b      \\u082c      \\u082d      \\u0859      \\u085a      \\u085b      ࢈           ࢐           ࢑           "
  \o "ࢗ           ࢘           ࢙           ࢚           ࢛           ࢜           ࢝           ࢞           ࢟           ࣉ           ࣊           ࣋           ࣌           ࣍           ࣎           ࣏           "
  \o "࣐           ࣑           ࣒           ࣓           ࣔ           ࣕ           ࣖ           ࣗ           ࣘ           ࣙ           ࣚ           ࣛ           ࣜ           ࣝ           ࣞ           ࣟ           "
  \o "࣠           ࣡           ࣢           ࣣ           ࣤ           ࣥ           ࣦ           ࣧ           ࣨ           ࣩ           ࣪           ࣫           ࣬           ࣭           ࣮           ࣯           "
  \o "ࣰ           ࣱ           ࣲ           ࣳ           ࣴ           ࣵ           ࣶ           ࣷ           ࣸ           ࣹ           ࣺ           ࣻ           ࣼ           ࣽ           ࣾ           ࣿ           "
  \o "\\u0900      \\u0901      \\u0902      \\u093a      \\u093c      \\u0941      \\u0942      \\u0943      \\u0944      \\u0945      \\u0946      \\u0947      \\u0948      \\u094d      \\u0951      \\u0952      "
  \o "\\u0953      \\u0954      \\u0955      \\u0956      \\u0957      \\u0962      \\u0963      \\u0971      ঁ           ়           ু           ূ           ৃ           ৄ           ্           ৢ           "
  \o "ৣ           ৾           \\u0a01      \\u0a02      \\u0a3c      \\u0a41      \\u0a42      \\u0a47      \\u0a48      \\u0a4b      \\u0a4c      \\u0a4d      \\u0a51      \\u0a70      \\u0a71      \\u0a75      "
  \o "ઁ           ં           ઼           ુ           ૂ           ૃ           ૄ           ૅ           ે           ૈ           ્           ૢ           ૣ           ૺ           ૻ           ૼ           "
  \o "૽           ૾           ૿           \\u0b01      \\u0b3c      \\u0b3f      \\u0b41      \\u0b42      \\u0b43      \\u0b44      \\u0b4d      \\u0b55      \\u0b56      \\u0b62      \\u0b63      ஂ           "
  \o "ீ           ்           \\u0c00      \\u0c04      \\u0c3c      \\u0c3e      \\u0c3f      \\u0c40      \\u0c46      \\u0c47      \\u0c48      \\u0c4a      \\u0c4b      \\u0c4c      \\u0c4d      \\u0c55      "
  \o "\\u0c56      \\u0c62      \\u0c63      ಁ           ಼           ಿ           ೆ           ೌ           ್           ೢ           ೣ           \\u0d00      \\u0d01      \\u0d3b      \\u0d3c      \\u0d41      "
  \o "\\u0d42      \\u0d43      \\u0d44      \\u0d4d      \\u0d62      \\u0d63      ඁ           ්           ි           ී           ු           ූ           \\u0e31      \\u0e34      \\u0e35      \\u0e36      "
  \o "\\u0e37      \\u0e38      \\u0e39      \\u0e3a      \\u0e46      \\u0e47      \\u0e48      \\u0e49      \\u0e4a      \\u0e4b      \\u0e4c      \\u0e4d      \\u0e4e      ັ           ິ           ີ           "
  \o "ຶ           ື           ຸ           ູ           ຺           ົ           ຼ           ໆ           ່           ້           ໊           ໋           ໌           ໍ           ໎           \\u0f18      "
  \o "\\u0f19      \\u0f35      \\u0f37      \\u0f39      \\u0f71      \\u0f72      \\u0f73      \\u0f74      \\u0f75      \\u0f76      \\u0f77      \\u0f78      \\u0f79      \\u0f7a      \\u0f7b      \\u0f7c      "
  \o "\\u0f7d      \\u0f7e      ྀ           ཱྀ           ྂ           ྃ           ྄           ྆           ྇           ྍ           ྎ           ྏ           ྐ           ྑ           ྒ           ྒྷ           "
  \o "ྔ           ྕ           ྖ           ྗ           ྙ           ྚ           ྛ           ྜ           ྜྷ           ྞ           ྟ           ྠ           ྡ           ྡྷ           ྣ           ྤ           "
  \o "ྥ           ྦ           ྦྷ           ྨ           ྩ           ྪ           ྫ           ྫྷ           ྭ           ྮ           ྯ           ྰ           ྱ           ྲ           ླ           ྴ           "
  \o "ྵ           ྶ           ྷ           ྸ           ྐྵ           ྺ           ྻ           ྼ           ࿆           \\u102d      \\u102e      \\u102f      \\u1030      \\u1032      \\u1033      \\u1034      "
  \o "\\u1035      \\u1036      \\u1037      \\u1039      \\u103a      \\u103d      \\u103e      \\u1058      \\u1059      \\u105e      \\u105f      \\u1060      \\u1071      \\u1072      \\u1073      \\u1074      "
  \o "ႂ           ႅ           ႆ           ႍ           ႝ           ჼ           \\u135d      \\u135e      \\u135f      \\u1712      \\u1713      \\u1714      \\u1732      \\u1733      \\u1752      \\u1753      "
  \o "\\u1772      \\u1773      ឴           ឵           ិ           ី           ឹ           ឺ           ុ           ូ           ួ           ំ           ៉           ៊           ់           ៌           "
  \o "៍           ៎           ៏           ័           ៑           ្           ៓           ៗ           ៝           \\u180b      \\u180c      \\u180d      \\u180e      \\u180f      \\u1843      ᢅ           "
  \o "ᢆ           ᢩ           \\u1920      \\u1921      \\u1922      \\u1927      \\u1928      \\u1932      \\u1939      \\u193a      \\u193b      \\u1a17      \\u1a18      \\u1a1b      \\u1a56      \\u1a58      "
  \o "\\u1a59      \\u1a5a      \\u1a5b      \\u1a5c      \\u1a5d      \\u1a5e      \\u1a60      \\u1a62      \\u1a65      \\u1a66      \\u1a67      \\u1a68      \\u1a69      \\u1a6a      \\u1a6b      \\u1a6c      "
  \o "\\u1a73      \\u1a74      \\u1a75      \\u1a76      \\u1a77      \\u1a78      \\u1a79      \\u1a7a      \\u1a7b      \\u1a7c      \\u1a7f      ᪧ           ᪰           ᪱           ᪲           ᪳           "
  \o "᪴           ᪵           ᪶           ᪷           ᪸           ᪹           ᪺           ᪻           ᪼           ᪽           ᪾           ᪿ           ᫀ           ᫁           ᫂           ᫃           "
  \o "᫄           ᫅           ᫆           ᫇           ᫈           ᫉           ᫊           ᫋           ᫌ           ᫍ           ᫎ           ᫏           ᫐           ᫑           ᫒           ᫓           "
  \o "᫔           ᫕           ᫖           ᫗           ᫘           ᫙           ᫚           ᫛           ᫜           ᫝           ᫠           ᫡           ᫢           ᫣           ᫤           ᫥           "
  \o "᫦           ᫧           ᫨           ᫩           ᫪           ᫫           \\u1b00      \\u1b01      \\u1b02      \\u1b03      \\u1b34      \\u1b36      \\u1b37      \\u1b38      \\u1b39      \\u1b3a      "
  \o "\\u1b3c      \\u1b42      \\u1b6b      \\u1b6c      \\u1b6d      \\u1b6e      \\u1b6f      \\u1b70      \\u1b71      \\u1b72      \\u1b73      ᮀ           ᮁ           ᮢ           ᮣ           ᮤ           "
  \o "ᮥ           ᮨ           ᮩ           ᮫           ᮬ           ᮭ           ᯦           ᯨ           ᯩ           ᯭ           ᯯ           ᯰ           ᯱ           \\u1c2c      \\u1c2d      \\u1c2e      "
  \o "\\u1c2f      \\u1c30      \\u1c31      \\u1c32      \\u1c33      \\u1c36      \\u1c37      \\u1c78      \\u1c79      \\u1c7a      \\u1c7b      \\u1c7c      \\u1c7d      ᳐           ᳑           ᳒           "
  \o "᳔           ᳕           ᳖           ᳗           ᳘           ᳙           ᳚           ᳛           ᳜           ᳝           ᳞           ᳟           ᳠           ᳢           ᳣           ᳤           "
  \o "᳥           ᳦           ᳧           ᳨           ᳭           ᳴           ᳸           ᳹           \\u1d2c      \\u1d2d      \\u1d2e      \\u1d2f      \\u1d30      \\u1d31      \\u1d32      \\u1d33      "
  \o "\\u1d34      \\u1d35      \\u1d36      \\u1d37      \\u1d38      \\u1d39      \\u1d3a      \\u1d3b      \\u1d3c      \\u1d3d      \\u1d3e      \\u1d3f      \\u1d40      \\u1d41      \\u1d42      \\u1d43      "
  \o "\\u1d44      \\u1d45      \\u1d46      \\u1d47      \\u1d48      \\u1d49      \\u1d4a      \\u1d4b      \\u1d4c      \\u1d4d      \\u1d4e      \\u1d4f      \\u1d50      \\u1d51      \\u1d52      \\u1d53      "
  \o "\\u1d54      \\u1d55      \\u1d56      \\u1d57      \\u1d58      \\u1d59      \\u1d5a      \\u1d5b      \\u1d5c      \\u1d5d      \\u1d5e      \\u1d5f      \\u1d60      \\u1d61      \\u1d62      \\u1d63      "
  \o "\\u1d64      \\u1d65      \\u1d66      \\u1d67      \\u1d68      \\u1d69      \\u1d6a      \\u1d78      ᶛ           ᶜ           ᶝ           ᶞ           ᶟ           ᶠ           ᶡ           ᶢ           "
  \o "ᶣ           ᶤ           ᶥ           ᶦ           ᶧ           ᶨ           ᶩ           ᶪ           ᶫ           ᶬ           ᶭ           ᶮ           ᶯ           ᶰ           ᶱ           ᶲ           "
  \o "ᶳ           ᶴ           ᶵ           ᶶ           ᶷ           ᶸ           ᶹ           ᶺ           ᶻ           ᶼ           ᶽ           ᶾ           ᶿ           ᷀           ᷁           ᷂           "
  \o "᷃           ᷄           ᷅           ᷆           ᷇           ᷈           ᷉           ᷊           ᷋           ᷌           ᷍           ᷎           ᷏           ᷐           ᷑           ᷒           "
  \o "ᷓ           ᷔ           ᷕ           ᷖ           ᷗ           ᷘ           ᷙ           ᷚ           ᷛ           ᷜ           ᷝ           ᷞ           ᷟ           ᷠ           ᷡ           ᷢ           "
  \o "ᷣ           ᷤ           ᷥ           ᷦ           ᷧ           ᷨ           ᷩ           ᷪ           ᷫ           ᷬ           ᷭ           ᷮ           ᷯ           ᷰ           ᷱ           ᷲ           "
  \o "ᷳ           ᷴ           ᷵           ᷶           ᷷           ᷸           ᷹           ᷺           ᷻           ᷼           ᷽           ᷾           ᷿           ᾽           ᾿           ῀           "
  \o "῁           ῍           ῎           ῏           ῝           ῞           ῟           ῭           ΅           `           ´           ῾           \\u200b      \\u200c      \\u200d      \\u200e      "
  \o "\\u200f      \\u2018      \\u2019      \\u2024      \\u2027      \\u202a      \\u202b      \\u202c      \\u202d      \\u202e      \\u2060      \\u2061      \\u2062      \\u2063      \\u2064      \\u2066      "
  \o "\\u2067      \\u2068      \\u2069      \\u206a      \\u206b      \\u206c      \\u206d      \\u206e      \\u206f      \\u2071      \\u207f      ₐ           ₑ           ₒ           ₓ           ₔ           "
  \o "ₕ           ₖ           ₗ           ₘ           ₙ           ₚ           ₛ           ₜ           ⃐           ⃑           ⃒           ⃓           ⃔           ⃕           ⃖           ⃗           "
  \o "⃘           ⃙           ⃚           ⃛           ⃜           ⃝           ⃞           ⃟           ⃠           ⃡           ⃢           ⃣           ⃤           ⃥           ⃦           ⃧           "
  \o "⃨           ⃩           ⃪           ⃫           ⃬           ⃭           ⃮           ⃯           ⃰           \\u2c7c      \\u2c7d      ⳯           ⳰           ⳱           \\u2d6f      \\u2d7f      "
  \o "ⷠ           ⷡ           ⷢ           ⷣ           ⷤ           ⷥ           ⷦ           ⷧ           ⷨ           ⷩ           ⷪ           ⷫ           ⷬ           ⷭ           ⷮ           ⷯ           "
  \o "ⷰ           ⷱ           ⷲ           ⷳ           ⷴ           ⷵ           ⷶ           ⷷ           ⷸ           ⷹ           ⷺ           ⷻ           ⷼ           ⷽ           ⷾ           ⷿ           "
  \o "\\u2e2f      \\u3005      \\u302a      \\u302b      \\u302c      \\u302d      \\u3031      \\u3032      \\u3033      \\u3034      \\u3035      \\u303b      ゙           ゚           ゛           ゜           "
  \o "ゝ           ゞ           ー           ヽ           ヾ           \\ua015      ꓸ           ꓹ           ꓺ           ꓻ           ꓼ           ꓽ           \\ua60c      \\ua66f      \\ua670      \\ua671      "
  \o "\\ua672      \\ua674      \\ua675      \\ua676      \\ua677      \\ua678      \\ua679      \\ua67a      \\ua67b      \\ua67c      \\ua67d      \\ua67f      ꚜ           ꚝ           ꚞ           ꚟ           "
  \o "꛰           ꛱           \\ua700      \\ua701      \\ua702      \\ua703      \\ua704      \\ua705      \\ua706      \\ua707      \\ua708      \\ua709      \\ua70a      \\ua70b      \\ua70c      \\ua70d      "
  \o "\\ua70e      \\ua70f      \\ua710      \\ua711      \\ua712      \\ua713      \\ua714      \\ua715      \\ua716      \\ua717      \\ua718      \\ua719      \\ua71a      \\ua71b      \\ua71c      \\ua71d      "
  \o "\\ua71e      \\ua71f      \\ua720      \\ua721      \\ua770      ꞈ           ꞉           ꞊           ꟱           ꟲ           ꟳ           ꟴ           ꟸ           ꟹ           \\ua802      \\ua806      "
  \o "\\ua80b      \\ua825      \\ua826      \\ua82c      ꣄           ꣅ           ꣠           ꣡           ꣢           ꣣           ꣤           ꣥           ꣦           ꣧           ꣨           ꣩           "
  \o "꣪           ꣫           ꣬           ꣭           ꣮           ꣯           ꣰           ꣱           ꣿ           \\ua926      \\ua927      \\ua928      \\ua929      \\ua92a      \\ua92b      \\ua92c      "
  \o "\\ua92d      \\ua947      \\ua948      \\ua949      \\ua94a      \\ua94b      \\ua94c      \\ua94d      \\ua94e      \\ua94f      \\ua950      \\ua951      ꦀ           ꦁ           ꦂ           ꦳           "
  \o "ꦶ           ꦷ           ꦸ           ꦹ           ꦼ           ꦽ           ꧏ           ꧥ           ꧦ           \\uaa29      \\uaa2a      \\uaa2b      \\uaa2c      \\uaa2d      \\uaa2e      \\uaa31      "
  \o "\\uaa32      \\uaa35      \\uaa36      \\uaa43      \\uaa4c      \\uaa70      \\uaa7c      ꪰ           ꪲ           ꪳ           ꪴ           ꪷ           ꪸ           ꪾ           ꪿           ꫁           "
  \o "ꫝ           ꫬ           ꫭ           ꫳ           ꫴ           ꫶           \\uab5b      \\uab5c      \\uab5d      \\uab5e      \\uab5f      \\uab69      \\uab6a      \\uab6b      ꯥ           ꯨ           "
  \o "꯭           \\ufb1e      ﮲           ﮳           ﮴           ﮵           ﮶           ﮷           ﮸           ﮹           ﮺           ﮻           ﮼           ﮽           ﮾           ﮿           "
  \o "﯀           ﯁           ﯂           \\ufe00      \\ufe01      \\ufe02      \\ufe03      \\ufe04      \\ufe05      \\ufe06      \\ufe07      \\ufe08      \\ufe09      \\ufe0a      \\ufe0b      \\ufe0c      "
  \o "\\ufe0d      \\ufe0e      \\ufe0f      \\ufe13      \\ufe20      \\ufe21      \\ufe22      \\ufe23      \\ufe24      \\ufe25      \\ufe26      \\ufe27      \\ufe28      \\ufe29      \\ufe2a      \\ufe2b      "
  \o "\\ufe2c      \\ufe2d      \\ufe2e      \\ufe2f      \\ufe52      \\ufe55      ﻿           \\uff07      \\uff0e      \\uff1a      \\uff3e      \\uff40      \\uff70      ﾞ           ﾟ           ￣           "
  \o "￹           ￺           ￻           \\ud800\\uddfd\\ud800\\udee0\\ud800\\udf76\\ud800\\udf77\\ud800\\udf78\\ud800\\udf79\\ud800\\udf7a\\ud801\\udf80\\ud801\\udf81\\ud801\\udf82\\ud801\\udf83\\ud801\\udf84\\ud801\\udf85"
  \o "\\ud801\\udf87\\ud801\\udf88\\ud801\\udf89\\ud801\\udf8a\\ud801\\udf8b\\ud801\\udf8c\\ud801\\udf8d\\ud801\\udf8e\\ud801\\udf8f\\ud801\\udf90\\ud801\\udf91\\ud801\\udf92\\ud801\\udf93\\ud801\\udf94\\ud801\\udf95\\ud801\\udf96"
  \o "\\ud801\\udf97\\ud801\\udf98\\ud801\\udf99\\ud801\\udf9a\\ud801\\udf9b\\ud801\\udf9c\\ud801\\udf9d\\ud801\\udf9e\\ud801\\udf9f\\ud801\\udfa0\\ud801\\udfa1\\ud801\\udfa2\\ud801\\udfa3\\ud801\\udfa4\\ud801\\udfa5\\ud801\\udfa6"
  \o "\\ud801\\udfa7\\ud801\\udfa8\\ud801\\udfa9\\ud801\\udfaa\\ud801\\udfab\\ud801\\udfac\\ud801\\udfad\\ud801\\udfae\\ud801\\udfaf\\ud801\\udfb0\\ud801\\udfb2\\ud801\\udfb3\\ud801\\udfb4\\ud801\\udfb5\\ud801\\udfb6\\ud801\\udfb7"
  \o "\\ud801\\udfb8\\ud801\\udfb9\\ud801\\udfba\\ud802\\ude01\\ud802\\ude02\\ud802\\ude03\\ud802\\ude05\\ud802\\ude06\\ud802\\ude0c\\ud802\\ude0d\\ud802\\ude0e\\ud802\\ude0f\\ud802\\ude38\\ud802\\ude39\\ud802\\ude3a\\ud802\\ude3f"
  \o "\\ud802\\udee5\\ud802\\udee6\\ud803\\udd24\\ud803\\udd25\\ud803\\udd26\\ud803\\udd27\\ud803\\udd4e\\ud803\\udd69\\ud803\\udd6a\\ud803\\udd6b\\ud803\\udd6c\\ud803\\udd6d\\ud803\\udd6f\\ud803\\udeab\\ud803\\udeac\\ud803\\udec5"
  \o "\\ud803\\udefa\\ud803\\udefb\\ud803\\udefc\\ud803\\udefd\\ud803\\udefe\\ud803\\udeff\\ud803\\udf46\\ud803\\udf47\\ud803\\udf48\\ud803\\udf49\\ud803\\udf4a\\ud803\\udf4b\\ud803\\udf4c\\ud803\\udf4d\\ud803\\udf4e\\ud803\\udf4f"
  \o "\\ud803\\udf50\\ud803\\udf82\\ud803\\udf83\\ud803\\udf84\\ud803\\udf85\\ud804\\udc01\\ud804\\udc38\\ud804\\udc39\\ud804\\udc3a\\ud804\\udc3b\\ud804\\udc3c\\ud804\\udc3d\\ud804\\udc3e\\ud804\\udc3f\\ud804\\udc40\\ud804\\udc41"
  \o "\\ud804\\udc42\\ud804\\udc43\\ud804\\udc44\\ud804\\udc45\\ud804\\udc46\\ud804\\udc70\\ud804\\udc73\\ud804\\udc74\\ud804\\udc7f\\ud804\\udc80\\ud804\\udc81\\ud804\\udcb3\\ud804\\udcb4\\ud804\\udcb5\\ud804\\udcb6\\ud804\\udcb9"
  \o "\\ud804\\udcba\\ud804\\udcbd\\ud804\\udcc2\\ud804\\udccd\\ud804\\udd00\\ud804\\udd01\\ud804\\udd02\\ud804\\udd27\\ud804\\udd28\\ud804\\udd29\\ud804\\udd2a\\ud804\\udd2b\\ud804\\udd2d\\ud804\\udd2e\\ud804\\udd2f\\ud804\\udd30"
  \o "\\ud804\\udd31\\ud804\\udd32\\ud804\\udd33\\ud804\\udd34\\ud804\\udd73\\ud804\\udd80\\ud804\\udd81\\ud804\\uddb6\\ud804\\uddb7\\ud804\\uddb8\\ud804\\uddb9\\ud804\\uddba\\ud804\\uddbb\\ud804\\uddbc\\ud804\\uddbd\\ud804\\uddbe"
  \o "\\ud804\\uddc9\\ud804\\uddca\\ud804\\uddcb\\ud804\\uddcc\\ud804\\uddcf\\ud804\\ude2f\\ud804\\ude30\\ud804\\ude31\\ud804\\ude34\\ud804\\ude36\\ud804\\ude37\\ud804\\ude3e\\ud804\\ude41\\ud804\\udedf\\ud804\\udee3\\ud804\\udee4"
  \o "\\ud804\\udee5\\ud804\\udee6\\ud804\\udee7\\ud804\\udee8\\ud804\\udee9\\ud804\\udeea\\ud804\\udf00\\ud804\\udf01\\ud804\\udf3b\\ud804\\udf3c\\ud804\\udf40\\ud804\\udf66\\ud804\\udf67\\ud804\\udf68\\ud804\\udf69\\ud804\\udf6a"
  \o "\\ud804\\udf6b\\ud804\\udf6c\\ud804\\udf70\\ud804\\udf71\\ud804\\udf72\\ud804\\udf73\\ud804\\udf74\\ud804\\udfbb\\ud804\\udfbc\\ud804\\udfbd\\ud804\\udfbe\\ud804\\udfbf\\ud804\\udfc0\\ud804\\udfce\\ud804\\udfd0\\ud804\\udfd2"
  \o "\\ud804\\udfe1\\ud804\\udfe2\\ud805\\udc38\\ud805\\udc39\\ud805\\udc3a\\ud805\\udc3b\\ud805\\udc3c\\ud805\\udc3d\\ud805\\udc3e\\ud805\\udc3f\\ud805\\udc42\\ud805\\udc43\\ud805\\udc44\\ud805\\udc46\\ud805\\udc5e\\ud805\\udcb3"
  \o "\\ud805\\udcb4\\ud805\\udcb5\\ud805\\udcb6\\ud805\\udcb7\\ud805\\udcb8\\ud805\\udcba\\ud805\\udcbf\\ud805\\udcc0\\ud805\\udcc2\\ud805\\udcc3\\ud805\\uddb2\\ud805\\uddb3\\ud805\\uddb4\\ud805\\uddb5\\ud805\\uddbc\\ud805\\uddbd"
  \o "\\ud805\\uddbf\\ud805\\uddc0\\ud805\\udddc\\ud805\\udddd\\ud805\\ude33\\ud805\\ude34\\ud805\\ude35\\ud805\\ude36\\ud805\\ude37\\ud805\\ude38\\ud805\\ude39\\ud805\\ude3a\\ud805\\ude3d\\ud805\\ude3f\\ud805\\ude40\\ud805\\udeab"
  \o "\\ud805\\udead\\ud805\\udeb0\\ud805\\udeb1\\ud805\\udeb2\\ud805\\udeb3\\ud805\\udeb4\\ud805\\udeb5\\ud805\\udeb7\\ud805\\udf1d\\ud805\\udf1f\\ud805\\udf22\\ud805\\udf23\\ud805\\udf24\\ud805\\udf25\\ud805\\udf27\\ud805\\udf28"
  \o "\\ud805\\udf29\\ud805\\udf2a\\ud805\\udf2b\\ud806\\udc2f\\ud806\\udc30\\ud806\\udc31\\ud806\\udc32\\ud806\\udc33\\ud806\\udc34\\ud806\\udc35\\ud806\\udc36\\ud806\\udc37\\ud806\\udc39\\ud806\\udc3a\\ud806\\udd3b\\ud806\\udd3c"
  \o "\\ud806\\udd3e\\ud806\\udd43\\ud806\\uddd4\\ud806\\uddd5\\ud806\\uddd6\\ud806\\uddd7\\ud806\\uddda\\ud806\\udddb\\ud806\\udde0\\ud806\\ude01\\ud806\\ude02\\ud806\\ude03\\ud806\\ude04\\ud806\\ude05\\ud806\\ude06\\ud806\\ude07"
  \o "\\ud806\\ude08\\ud806\\ude09\\ud806\\ude0a\\ud806\\ude33\\ud806\\ude34\\ud806\\ude35\\ud806\\ude36\\ud806\\ude37\\ud806\\ude38\\ud806\\ude3b\\ud806\\ude3c\\ud806\\ude3d\\ud806\\ude3e\\ud806\\ude47\\ud806\\ude51\\ud806\\ude52"
  \o "\\ud806\\ude53\\ud806\\ude54\\ud806\\ude55\\ud806\\ude56\\ud806\\ude59\\ud806\\ude5a\\ud806\\ude5b\\ud806\\ude8a\\ud806\\ude8b\\ud806\\ude8c\\ud806\\ude8d\\ud806\\ude8e\\ud806\\ude8f\\ud806\\ude90\\ud806\\ude91\\ud806\\ude92"
  \o "\\ud806\\ude93\\ud806\\ude94\\ud806\\ude95\\ud806\\ude96\\ud806\\ude98\\ud806\\ude99\\ud806\\udf60\\ud806\\udf62\\ud806\\udf63\\ud806\\udf64\\ud806\\udf66\\ud807\\udc30\\ud807\\udc31\\ud807\\udc32\\ud807\\udc33\\ud807\\udc34"
  \o "\\ud807\\udc35\\ud807\\udc36\\ud807\\udc38\\ud807\\udc39\\ud807\\udc3a\\ud807\\udc3b\\ud807\\udc3c\\ud807\\udc3d\\ud807\\udc3f\\ud807\\udc92\\ud807\\udc93\\ud807\\udc94\\ud807\\udc95\\ud807\\udc96\\ud807\\udc97\\ud807\\udc98"
  \o "\\ud807\\udc99\\ud807\\udc9a\\ud807\\udc9b\\ud807\\udc9c\\ud807\\udc9d\\ud807\\udc9e\\ud807\\udc9f\\ud807\\udca0\\ud807\\udca1\\ud807\\udca2\\ud807\\udca3\\ud807\\udca4\\ud807\\udca5\\ud807\\udca6\\ud807\\udca7\\ud807\\udcaa"
  \o "\\ud807\\udcab\\ud807\\udcac\\ud807\\udcad\\ud807\\udcae\\ud807\\udcaf\\ud807\\udcb0\\ud807\\udcb2\\ud807\\udcb3\\ud807\\udcb5\\ud807\\udcb6\\ud807\\udd31\\ud807\\udd32\\ud807\\udd33\\ud807\\udd34\\ud807\\udd35\\ud807\\udd36"
  \o "\\ud807\\udd3a\\ud807\\udd3c\\ud807\\udd3d\\ud807\\udd3f\\ud807\\udd40\\ud807\\udd41\\ud807\\udd42\\ud807\\udd43\\ud807\\udd44\\ud807\\udd45\\ud807\\udd47\\ud807\\udd90\\ud807\\udd91\\ud807\\udd95\\ud807\\udd97\\ud807\\uddd9"
  \o "\\ud807\\udef3\\ud807\\udef4\\ud807\\udf00\\ud807\\udf01\\ud807\\udf36\\ud807\\udf37\\ud807\\udf38\\ud807\\udf39\\ud807\\udf3a\\ud807\\udf40\\ud807\\udf42\\ud807\\udf5a\\ud80d\\udc30\\ud80d\\udc31\\ud80d\\udc32\\ud80d\\udc33"
  \o "\\ud80d\\udc34\\ud80d\\udc35\\ud80d\\udc36\\ud80d\\udc37\\ud80d\\udc38\\ud80d\\udc39\\ud80d\\udc3a\\ud80d\\udc3b\\ud80d\\udc3c\\ud80d\\udc3d\\ud80d\\udc3e\\ud80d\\udc3f\\ud80d\\udc40\\ud80d\\udc47\\ud80d\\udc48\\ud80d\\udc49"
  \o "\\ud80d\\udc4a\\ud80d\\udc4b\\ud80d\\udc4c\\ud80d\\udc4d\\ud80d\\udc4e\\ud80d\\udc4f\\ud80d\\udc50\\ud80d\\udc51\\ud80d\\udc52\\ud80d\\udc53\\ud80d\\udc54\\ud80d\\udc55\\ud818\\udd1e\\ud818\\udd1f\\ud818\\udd20\\ud818\\udd21"
  \o "\\ud818\\udd22\\ud818\\udd23\\ud818\\udd24\\ud818\\udd25\\ud818\\udd26\\ud818\\udd27\\ud818\\udd28\\ud818\\udd29\\ud818\\udd2d\\ud818\\udd2e\\ud818\\udd2f\\ud81a\\udef0\\ud81a\\udef1\\ud81a\\udef2\\ud81a\\udef3\\ud81a\\udef4"
  \o "\\ud81a\\udf30\\ud81a\\udf31\\ud81a\\udf32\\ud81a\\udf33\\ud81a\\udf34\\ud81a\\udf35\\ud81a\\udf36\\ud81a\\udf40\\ud81a\\udf41\\ud81a\\udf42\\ud81a\\udf43\\ud81b\\udd40\\ud81b\\udd41\\ud81b\\udd42\\ud81b\\udd6b\\ud81b\\udd6c"
  \o "\\ud81b\\udf4f\\ud81b\\udf8f\\ud81b\\udf90\\ud81b\\udf91\\ud81b\\udf92\\ud81b\\udf93\\ud81b\\udf94\\ud81b\\udf95\\ud81b\\udf96\\ud81b\\udf97\\ud81b\\udf98\\ud81b\\udf99\\ud81b\\udf9a\\ud81b\\udf9b\\ud81b\\udf9c\\ud81b\\udf9d"
  \o "\\ud81b\\udf9e\\ud81b\\udf9f\\ud81b\\udfe0\\ud81b\\udfe1\\ud81b\\udfe3\\ud81b\\udfe4\\ud81b\\udff2\\ud81b\\udff3\\ud82b\\udff0\\ud82b\\udff1\\ud82b\\udff2\\ud82b\\udff3\\ud82b\\udff5\\ud82b\\udff6\\ud82b\\udff7\\ud82b\\udff8"
  \o "\\ud82b\\udff9\\ud82b\\udffa\\ud82b\\udffb\\ud82b\\udffd\\ud82b\\udffe\\ud82f\\udc9d\\ud82f\\udc9e\\ud82f\\udca0\\ud82f\\udca1\\ud82f\\udca2\\ud82f\\udca3\\ud833\\udf00\\ud833\\udf01\\ud833\\udf02\\ud833\\udf03\\ud833\\udf04"
  \o "\\ud833\\udf05\\ud833\\udf06\\ud833\\udf07\\ud833\\udf08\\ud833\\udf09\\ud833\\udf0a\\ud833\\udf0b\\ud833\\udf0c\\ud833\\udf0d\\ud833\\udf0e\\ud833\\udf0f\\ud833\\udf10\\ud833\\udf11\\ud833\\udf12\\ud833\\udf13\\ud833\\udf14"
  \o "\\ud833\\udf15\\ud833\\udf16\\ud833\\udf17\\ud833\\udf18\\ud833\\udf19\\ud833\\udf1a\\ud833\\udf1b\\ud833\\udf1c\\ud833\\udf1d\\ud833\\udf1e\\ud833\\udf1f\\ud833\\udf20\\ud833\\udf21\\ud833\\udf22\\ud833\\udf23\\ud833\\udf24"
  \o "\\ud833\\udf25\\ud833\\udf26\\ud833\\udf27\\ud833\\udf28\\ud833\\udf29\\ud833\\udf2a\\ud833\\udf2b\\ud833\\udf2c\\ud833\\udf2d\\ud833\\udf30\\ud833\\udf31\\ud833\\udf32\\ud833\\udf33\\ud833\\udf34\\ud833\\udf35\\ud833\\udf36"
  \o "\\ud833\\udf37\\ud833\\udf38\\ud833\\udf39\\ud833\\udf3a\\ud833\\udf3b\\ud833\\udf3c\\ud833\\udf3d\\ud833\\udf3e\\ud833\\udf3f\\ud833\\udf40\\ud833\\udf41\\ud833\\udf42\\ud833\\udf43\\ud833\\udf44\\ud833\\udf45\\ud833\\udf46"
  \o "\\ud834\\udd67\\ud834\\udd68\\ud834\\udd69\\ud834\\udd73\\ud834\\udd74\\ud834\\udd75\\ud834\\udd76\\ud834\\udd77\\ud834\\udd78\\ud834\\udd79\\ud834\\udd7a\\ud834\\udd7b\\ud834\\udd7c\\ud834\\udd7d\\ud834\\udd7e\\ud834\\udd7f"
  \o "\\ud834\\udd80\\ud834\\udd81\\ud834\\udd82\\ud834\\udd85\\ud834\\udd86\\ud834\\udd87\\ud834\\udd88\\ud834\\udd89\\ud834\\udd8a\\ud834\\udd8b\\ud834\\uddaa\\ud834\\uddab\\ud834\\uddac\\ud834\\uddad\\ud834\\ude42\\ud834\\ude43"
  \o "\\ud834\\ude44\\ud836\\ude00\\ud836\\ude01\\ud836\\ude02\\ud836\\ude03\\ud836\\ude04\\ud836\\ude05\\ud836\\ude06\\ud836\\ude07\\ud836\\ude08\\ud836\\ude09\\ud836\\ude0a\\ud836\\ude0b\\ud836\\ude0c\\ud836\\ude0d\\ud836\\ude0e"
  \o "\\ud836\\ude0f\\ud836\\ude10\\ud836\\ude11\\ud836\\ude12\\ud836\\ude13\\ud836\\ude14\\ud836\\ude15\\ud836\\ude16\\ud836\\ude17\\ud836\\ude18\\ud836\\ude19\\ud836\\ude1a\\ud836\\ude1b\\ud836\\ude1c\\ud836\\ude1d\\ud836\\ude1e"
  \o "\\ud836\\ude1f\\ud836\\ude20\\ud836\\ude21\\ud836\\ude22\\ud836\\ude23\\ud836\\ude24\\ud836\\ude25\\ud836\\ude26\\ud836\\ude27\\ud836\\ude28\\ud836\\ude29\\ud836\\ude2a\\ud836\\ude2b\\ud836\\ude2c\\ud836\\ude2d\\ud836\\ude2e"
  \o "\\ud836\\ude2f\\ud836\\ude30\\ud836\\ude31\\ud836\\ude32\\ud836\\ude33\\ud836\\ude34\\ud836\\ude35\\ud836\\ude36\\ud836\\ude3b\\ud836\\ude3c\\ud836\\ude3d\\ud836\\ude3e\\ud836\\ude3f\\ud836\\ude40\\ud836\\ude41\\ud836\\ude42"
  \o "\\ud836\\ude43\\ud836\\ude44\\ud836\\ude45\\ud836\\ude46\\ud836\\ude47\\ud836\\ude48\\ud836\\ude49\\ud836\\ude4a\\ud836\\ude4b\\ud836\\ude4c\\ud836\\ude4d\\ud836\\ude4e\\ud836\\ude4f\\ud836\\ude50\\ud836\\ude51\\ud836\\ude52"
  \o "\\ud836\\ude53\\ud836\\ude54\\ud836\\ude55\\ud836\\ude56\\ud836\\ude57\\ud836\\ude58\\ud836\\ude59\\ud836\\ude5a\\ud836\\ude5b\\ud836\\ude5c\\ud836\\ude5d\\ud836\\ude5e\\ud836\\ude5f\\ud836\\ude60\\ud836\\ude61\\ud836\\ude62"
  \o "\\ud836\\ude63\\ud836\\ude64\\ud836\\ude65\\ud836\\ude66\\ud836\\ude67\\ud836\\ude68\\ud836\\ude69\\ud836\\ude6a\\ud836\\ude6b\\ud836\\ude6c\\ud836\\ude75\\ud836\\ude84\\ud836\\ude9b\\ud836\\ude9c\\ud836\\ude9d\\ud836\\ude9e"
  \o "\\ud836\\ude9f\\ud836\\udea1\\ud836\\udea2\\ud836\\udea3\\ud836\\udea4\\ud836\\udea5\\ud836\\udea6\\ud836\\udea7\\ud836\\udea8\\ud836\\udea9\\ud836\\udeaa\\ud836\\udeab\\ud836\\udeac\\ud836\\udead\\ud836\\udeae\\ud836\\udeaf"
  \o "\\ud838\\udc00\\ud838\\udc01\\ud838\\udc02\\ud838\\udc03\\ud838\\udc04\\ud838\\udc05\\ud838\\udc06\\ud838\\udc08\\ud838\\udc09\\ud838\\udc0a\\ud838\\udc0b\\ud838\\udc0c\\ud838\\udc0d\\ud838\\udc0e\\ud838\\udc0f\\ud838\\udc10"
  \o "\\ud838\\udc11\\ud838\\udc12\\ud838\\udc13\\ud838\\udc14\\ud838\\udc15\\ud838\\udc16\\ud838\\udc17\\ud838\\udc18\\ud838\\udc1b\\ud838\\udc1c\\ud838\\udc1d\\ud838\\udc1e\\ud838\\udc1f\\ud838\\udc20\\ud838\\udc21\\ud838\\udc23"
  \o "\\ud838\\udc24\\ud838\\udc26\\ud838\\udc27\\ud838\\udc28\\ud838\\udc29\\ud838\\udc2a\\ud838\\udc30\\ud838\\udc31\\ud838\\udc32\\ud838\\udc33\\ud838\\udc34\\ud838\\udc35\\ud838\\udc36\\ud838\\udc37\\ud838\\udc38\\ud838\\udc39"
  \o "\\ud838\\udc3a\\ud838\\udc3b\\ud838\\udc3c\\ud838\\udc3d\\ud838\\udc3e\\ud838\\udc3f\\ud838\\udc40\\ud838\\udc41\\ud838\\udc42\\ud838\\udc43\\ud838\\udc44\\ud838\\udc45\\ud838\\udc46\\ud838\\udc47\\ud838\\udc48\\ud838\\udc49"
  \o "\\ud838\\udc4a\\ud838\\udc4b\\ud838\\udc4c\\ud838\\udc4d\\ud838\\udc4e\\ud838\\udc4f\\ud838\\udc50\\ud838\\udc51\\ud838\\udc52\\ud838\\udc53\\ud838\\udc54\\ud838\\udc55\\ud838\\udc56\\ud838\\udc57\\ud838\\udc58\\ud838\\udc59"
  \o "\\ud838\\udc5a\\ud838\\udc5b\\ud838\\udc5c\\ud838\\udc5d\\ud838\\udc5e\\ud838\\udc5f\\ud838\\udc60\\ud838\\udc61\\ud838\\udc62\\ud838\\udc63\\ud838\\udc64\\ud838\\udc65\\ud838\\udc66\\ud838\\udc67\\ud838\\udc68\\ud838\\udc69"
  \o "\\ud838\\udc6a\\ud838\\udc6b\\ud838\\udc6c\\ud838\\udc6d\\ud838\\udc8f\\ud838\\udd30\\ud838\\udd31\\ud838\\udd32\\ud838\\udd33\\ud838\\udd34\\ud838\\udd35\\ud838\\udd36\\ud838\\udd37\\ud838\\udd38\\ud838\\udd39\\ud838\\udd3a"
  \o "\\ud838\\udd3b\\ud838\\udd3c\\ud838\\udd3d\\ud838\\udeae\\ud838\\udeec\\ud838\\udeed\\ud838\\udeee\\ud838\\udeef\\ud839\\udceb\\ud839\\udcec\\ud839\\udced\\ud839\\udcee\\ud839\\udcef\\ud839\\uddee\\ud839\\uddef\\ud839\\udee3"
  \o "\\ud839\\udee6\\ud839\\udeee\\ud839\\udeef\\ud839\\udef5\\ud839\\udeff\\ud83a\\udcd0\\ud83a\\udcd1\\ud83a\\udcd2\\ud83a\\udcd3\\ud83a\\udcd4\\ud83a\\udcd5\\ud83a\\udcd6\\ud83a\\udd44\\ud83a\\udd45\\ud83a\\udd46\\ud83a\\udd47"
  \o "\\ud83a\\udd48\\ud83a\\udd49\\ud83a\\udd4a\\ud83a\\udd4b\\ud83c\\udffb\\ud83c\\udffc\\ud83c\\udffd\\ud83c\\udffe\\ud83c\\udfff\\udb40\\udc01\\udb40\\udc20\\udb40\\udc21\\udb40\\udc22\\udb40\\udc23\\udb40\\udc24\\udb40\\udc25"
  \o "\\udb40\\udc26\\udb40\\udc27\\udb40\\udc28\\udb40\\udc29\\udb40\\udc2a\\udb40\\udc2b\\udb40\\udc2c\\udb40\\udc2d\\udb40\\udc2e\\udb40\\udc2f\\udb40\\udc30\\udb40\\udc31\\udb40\\udc32\\udb40\\udc33\\udb40\\udc34\\udb40\\udc35"
  \o "\\udb40\\udc36\\udb40\\udc37\\udb40\\udc38\\udb40\\udc39\\udb40\\udc3a\\udb40\\udc3b\\udb40\\udc3c\\udb40\\udc3d\\udb40\\udc3e\\udb40\\udc3f\\udb40\\udc40\\udb40\\udc41\\udb40\\udc42\\udb40\\udc43\\udb40\\udc44\\udb40\\udc45"
  \o "\\udb40\\udc46\\udb40\\udc47\\udb40\\udc48\\udb40\\udc49\\udb40\\udc4a\\udb40\\udc4b\\udb40\\udc4c\\udb40\\udc4d\\udb40\\udc4e\\udb40\\udc4f\\udb40\\udc50\\udb40\\udc51\\udb40\\udc52\\udb40\\udc53\\udb40\\udc54\\udb40\\udc55"
  \o "\\udb40\\udc56\\udb40\\udc57\\udb40\\udc58\\udb40\\udc59\\udb40\\udc5a\\udb40\\udc5b\\udb40\\udc5c\\udb40\\udc5d\\udb40\\udc5e\\udb40\\udc5f\\udb40\\udc60\\udb40\\udc61\\udb40\\udc62\\udb40\\udc63\\udb40\\udc64\\udb40\\udc65"
  \o "\\udb40\\udc66\\udb40\\udc67\\udb40\\udc68\\udb40\\udc69\\udb40\\udc6a\\udb40\\udc6b\\udb40\\udc6c\\udb40\\udc6d\\udb40\\udc6e\\udb40\\udc6f\\udb40\\udc70\\udb40\\udc71\\udb40\\udc72\\udb40\\udc73\\udb40\\udc74\\udb40\\udc75"
  \o "\\udb40\\udc76\\udb40\\udc77\\udb40\\udc78\\udb40\\udc79\\udb40\\udc7a\\udb40\\udc7b\\udb40\\udc7c\\udb40\\udc7d\\udb40\\udc7e\\udb40\\udc7f\\udb40\\udd00\\udb40\\udd01\\udb40\\udd02\\udb40\\udd03\\udb40\\udd04\\udb40\\udd05"
  \o "\\udb40\\udd06\\udb40\\udd07\\udb40\\udd08\\udb40\\udd09\\udb40\\udd0a\\udb40\\udd0b\\udb40\\udd0c\\udb40\\udd0d\\udb40\\udd0e\\udb40\\udd0f\\udb40\\udd10\\udb40\\udd11\\udb40\\udd12\\udb40\\udd13\\udb40\\udd14\\udb40\\udd15"
  \o "\\udb40\\udd16\\udb40\\udd17\\udb40\\udd18\\udb40\\udd19\\udb40\\udd1a\\udb40\\udd1b\\udb40\\udd1c\\udb40\\udd1d\\udb40\\udd1e\\udb40\\udd1f\\udb40\\udd20\\udb40\\udd21\\udb40\\udd22\\udb40\\udd23\\udb40\\udd24\\udb40\\udd25"
  \o "\\udb40\\udd26\\udb40\\udd27\\udb40\\udd28\\udb40\\udd29\\udb40\\udd2a\\udb40\\udd2b\\udb40\\udd2c\\udb40\\udd2d\\udb40\\udd2e\\udb40\\udd2f\\udb40\\udd30\\udb40\\udd31\\udb40\\udd32\\udb40\\udd33\\udb40\\udd34\\udb40\\udd35"
  \o "\\udb40\\udd36\\udb40\\udd37\\udb40\\udd38\\udb40\\udd39\\udb40\\udd3a\\udb40\\udd3b\\udb40\\udd3c\\udb40\\udd3d\\udb40\\udd3e\\udb40\\udd3f\\udb40\\udd40\\udb40\\udd41\\udb40\\udd42\\udb40\\udd43\\udb40\\udd44\\udb40\\udd45"
  \o "\\udb40\\udd46\\udb40\\udd47\\udb40\\udd48\\udb40\\udd49\\udb40\\udd4a\\udb40\\udd4b\\udb40\\udd4c\\udb40\\udd4d\\udb40\\udd4e\\udb40\\udd4f\\udb40\\udd50\\udb40\\udd51\\udb40\\udd52\\udb40\\udd53\\udb40\\udd54\\udb40\\udd55"
  \o "\\udb40\\udd56\\udb40\\udd57\\udb40\\udd58\\udb40\\udd59\\udb40\\udd5a\\udb40\\udd5b\\udb40\\udd5c\\udb40\\udd5d\\udb40\\udd5e\\udb40\\udd5f\\udb40\\udd60\\udb40\\udd61\\udb40\\udd62\\udb40\\udd63\\udb40\\udd64\\udb40\\udd65"
  \o "\\udb40\\udd66\\udb40\\udd67\\udb40\\udd68\\udb40\\udd69\\udb40\\udd6a\\udb40\\udd6b\\udb40\\udd6c\\udb40\\udd6d\\udb40\\udd6e\\udb40\\udd6f\\udb40\\udd70\\udb40\\udd71\\udb40\\udd72\\udb40\\udd73\\udb40\\udd74\\udb40\\udd75"
  \o "\\udb40\\udd76\\udb40\\udd77\\udb40\\udd78\\udb40\\udd79\\udb40\\udd7a\\udb40\\udd7b\\udb40\\udd7c\\udb40\\udd7d\\udb40\\udd7e\\udb40\\udd7f\\udb40\\udd80\\udb40\\udd81\\udb40\\udd82\\udb40\\udd83\\udb40\\udd84\\udb40\\udd85"
  \o "\\udb40\\udd86\\udb40\\udd87\\udb40\\udd88\\udb40\\udd89\\udb40\\udd8a\\udb40\\udd8b\\udb40\\udd8c\\udb40\\udd8d\\udb40\\udd8e\\udb40\\udd8f\\udb40\\udd90\\udb40\\udd91\\udb40\\udd92\\udb40\\udd93\\udb40\\udd94\\udb40\\udd95"
  \o "\\udb40\\udd96\\udb40\\udd97\\udb40\\udd98\\udb40\\udd99\\udb40\\udd9a\\udb40\\udd9b\\udb40\\udd9c\\udb40\\udd9d\\udb40\\udd9e\\udb40\\udd9f\\udb40\\udda0\\udb40\\udda1\\udb40\\udda2\\udb40\\udda3\\udb40\\udda4\\udb40\\udda5"
  \o "\\udb40\\udda6\\udb40\\udda7\\udb40\\udda8\\udb40\\udda9\\udb40\\uddaa\\udb40\\uddab\\udb40\\uddac\\udb40\\uddad\\udb40\\uddae\\udb40\\uddaf\\udb40\\uddb0\\udb40\\uddb1\\udb40\\uddb2\\udb40\\uddb3\\udb40\\uddb4\\udb40\\uddb5"
  \o "\\udb40\\uddb6\\udb40\\uddb7\\udb40\\uddb8\\udb40\\uddb9\\udb40\\uddba\\udb40\\uddbb\\udb40\\uddbc\\udb40\\uddbd\\udb40\\uddbe\\udb40\\uddbf\\udb40\\uddc0\\udb40\\uddc1\\udb40\\uddc2\\udb40\\uddc3\\udb40\\uddc4\\udb40\\uddc5"
  \o "\\udb40\\uddc6\\udb40\\uddc7\\udb40\\uddc8\\udb40\\uddc9\\udb40\\uddca\\udb40\\uddcb\\udb40\\uddcc\\udb40\\uddcd\\udb40\\uddce\\udb40\\uddcf\\udb40\\uddd0\\udb40\\uddd1\\udb40\\uddd2\\udb40\\uddd3\\udb40\\uddd4\\udb40\\uddd5"
  \o "\\udb40\\uddd6\\udb40\\uddd7\\udb40\\uddd8\\udb40\\uddd9\\udb40\\uddda\\udb40\\udddb\\udb40\\udddc\\udb40\\udddd\\udb40\\uddde\\udb40\\udddf\\udb40\\udde0\\udb40\\udde1\\udb40\\udde2\\udb40\\udde3\\udb40\\udde4\\udb40\\udde5"
  \o "\\udb40\\udde6\\udb40\\udde7\\udb40\\udde8\\udb40\\udde9\\udb40\\uddea\\udb40\\uddeb\\udb40\\uddec\\udb40\\udded\\udb40\\uddee\\udb40\\uddef"

CaseIgnorable ==
  {Cells(CaseIgnorableTable, 2 * r - 1, 2 * r) :
     r \in Rows(CaseIgnorableTable, 2)}

LowerCase ==
  [point \in {pair[1] : pair \in LowerCasePairs} |->
     (CHOOSE pair \in LowerCasePairs : pair[1] = point)[2]]
LowerCased == DOMAIN LowerCase

UpperCase ==
  [point \in {pair[1] : pair \in UpperCasePairs} |->
     (CHOOSE pair \in UpperCasePairs : pair[1] = point)[2]]
UpperCased == DOMAIN UpperCase

\* the surrogate pairs the tables know
SurrogatePairs ==
  {point \in LowerCased \cup UpperCased \cup Cased \cup CaseIgnorable :
     Len(point) = 2}

\* the code points of a string from code unit i on: a surrogate pair is one
\* code point (a pair outside the tables behaves as its two code units do)
RECURSIVE CodePointsFrom(_, _)
CodePointsFrom(s, i) ==
  IF i > Len(s) THEN <<>>
  ELSE IF i < Len(s) /\ <<s[i], s[i + 1]>> \in SurrogatePairs
  THEN <<(<<s[i], s[i + 1]>>)>> \o CodePointsFrom(s, i + 2)
  ELSE <<(<<s[i]>>)>> \o CodePointsFrom(s, i + 1)

CodePoints(s) == CodePointsFrom(s, 1)

\* the strings of a list of strings, one after the other
RECURSIVE Flatten(_)
Flatten(strings) ==
  IF strings = <<>> THEN <<>> ELSE Head(strings) \o Flatten(Tail(strings))

\* c.toLowerCase() and c.toUpperCase() of a string c of one code unit
toLowerCaseChar(c) ==
  IF <<c>> \in LowerCased THEN LowerCase[<<c>>] ELSE <<c>>

toUpperCaseChar(c) ==
  IF <<c>> \in UpperCased THEN UpperCase[<<c>>] ELSE <<c>>

\* the condition Final_Sigma of the capital sigma at points[i]: before it a
\* cased letter, after it none, case-ignorable code points skipped
FinalSigma(points, i) ==
  LET before == {j \in 1..(i - 1) : points[j] \notin CaseIgnorable}
      after == {j \in (i + 1)..Len(points) : points[j] \notin CaseIgnorable}
  IN  /\ before # {}
      /\ points[CHOOSE j \in before : \A k \in before : k <= j] \in Cased
      /\ \/ after = {}
         \/ points[CHOOSE j \in after : \A k \in after : j <= k] \notin Cased

toLowerCasePoints(points) ==
  Flatten([i \in 1..Len(points) |->
             IF points[i] = <<"Σ">> /\ FinalSigma(points, i)
             THEN <<"ς">>
             ELSE IF points[i] \in LowerCased THEN LowerCase[points[i]]
             ELSE points[i]])

toLowerCase(s) == toLowerCasePoints(CodePoints(s))

toUpperCasePoints(points) ==
  Flatten([i \in 1..Len(points) |->
             IF points[i] \in UpperCased THEN UpperCase[points[i]]
             ELSE points[i]])

toUpperCase(s) == toUpperCasePoints(CodePoints(s))

RECURSIVE trimStart(_)
trimStart(s) ==
  IF s # <<>> /\ Head(s) \in WhiteSpace THEN trimStart(Tail(s)) ELSE s

RECURSIVE trimEnd(_)
trimEnd(s) ==
  IF s # <<>> /\ s[Len(s)] \in WhiteSpace
  THEN trimEnd(SubSeq(s, 1, Len(s) - 1))
  ELSE s

trim(s) == trimEnd(trimStart(s))

\* ------------------------------------------------------------------------
\* Expression nodes and their evaluation
\* ------------------------------------------------------------------------
\* the null of `expression: TechStackExpression | null`
Null == [type |-> "null"]

\* a null/undefined entry of a tag list (never a string the code can build)
NullTag == <<"null">>

TermExpression(term) == [type |-> "Term", term |-> term]

NotExpression(expression) == [type |-> "Not", expression |-> expression]

AndExpression(left, right) == [type |-> "And", left |-> left, right |-> right]

OrExpression(left, right) == [type |-> "Or", left |-> left, right |-> right]

\* tech?.toLowerCase().trim() === normalizedTerm, for one entry of the list
SubstringTagMatches(tech, normalizedTerm) ==
  /\ tech # NullTag
  /\ LET t == trim(toLowerCase(tech)) IN
       \E i \in 0..Len(t) : \E j \in i..Len(t) :
          SubSeq(t, i + 1, j) = normalizedTerm

TagMatchesOrNull(tech, normalizedTerm) ==
  \/ tech = NullTag
  \/ trim(toLowerCase(tech)) = normalizedTerm

TagMatches(tech, normalizedTerm) ==
  /\ tech # NullTag
  /\ trim(toLowerCase(tech)) = normalizedTerm

evaluateTerm(term, techStack) ==
  LET normalizedTerm == trim(toLowerCase(term)) IN
    \E k \in 1..Len(techStack) : TagMatches(techStack[k], normalizedTerm)

RECURSIVE evaluate(_, _)
evaluate(node, techStack) ==
  CASE node.type = "Term" -> evaluateTerm(node.term, techStack)
    [] node.type = "Not"  -> ~ evaluate(node.expression, techStack)
    [] node.type = "And"  -> evaluate(node.left, techStack)
                               /\ evaluate(node.right, techStack)
    [] node.type = "Or"   -> evaluate(node.left, techStack)
                               \/ evaluate(node.right, techStack)

\* a call of evaluate that writes the normalised tags back into the list
evaluateCallNormalisingTags(node, techStack) ==
  [value |-> evaluate(node, techStack),
   node |-> node,
   techStack |-> [k \in 1..Len(techStack) |->
                    IF techStack[k] = NullTag THEN NullTag
                    ELSE trim(toLowerCase(techStack[k]))]]

\* The call node.evaluate(techStack) with what it leaves behind: the value
\* returned, the tree and the list after the call.  The four evaluate methods
\* assign to no field of a node and to no entry of the list (toLowerCase and
\* trim return new strings, some and every only read).
evaluateCall(node, techStack) ==
  [value |-> evaluate(node, techStack),
   node |-> node,
   techStack |-> techStack]

\* ------------------------------------------------------------------------
\* Tokenizer
\* ------------------------------------------------------------------------
\* the loop body and the final flush of tokenize, from character i (1-based)
RECURSIVE tokenizeFromSplittingQuoted(_, _, _, _, _)
tokenizeFromSplittingQuoted(expression, i, toks, currentTok, inQuotes) ==
  IF i > Len(expression)
  THEN IF trim(currentTok) # <<>> THEN Append(toks, trim(currentTok)) ELSE toks
  ELSE LET char == expression[i] IN
    IF char = "\""
    THEN tokenizeFromSplittingQuoted(expression, i + 1, toks, currentTok,
                                     ~ inQuotes)
    ELSE IF char = "(" \/ char = ")"
    THEN IF trim(currentTok) # <<>>
         THEN tokenizeFromSplittingQuoted(expression, i + 1,
                Append(Append(toks, trim(currentTok)), <<char>>),
                <<>>, inQuotes)
         ELSE tokenizeFromSplittingQuoted(expression, i + 1,
                Append(toks, <<char>>), currentTok, inQuotes)
    ELSE IF char = " " \/ char = "\t"
    THEN IF trim(currentTok) # <<>>
         THEN tokenizeFromSplittingQuoted(expression, i + 1,
                Append(toks, trim(currentTok)), <<>>, inQuotes)
         ELSE tokenizeFromSplittingQuoted(expression, i + 1, toks, currentTok,
                                          inQuotes)
    ELSE tokenizeFromSplittingQuoted(expression, i + 1, toks,
                                     Append(currentTok, char), inQuotes)

RECURSIVE tokenizeFromDroppingOpenQuote(_, _, _, _, _)
tokenizeFromDroppingOpenQuote(expression, i, toks, currentTok, inQuotes) ==
  IF i > Len(expression)
  THEN IF trim(currentTok) # <<>> /\ ~ inQuotes
       THEN Append(toks, trim(currentTok))
       ELSE toks
  ELSE LET char == expression[i] IN
    IF char = "\""
    THEN tokenizeFromDroppingOpenQuote(expression, i + 1, toks, currentTok,
                                       ~ inQuotes)
    ELSE IF inQuotes
    THEN tokenizeFromDroppingOpenQuote(expression, i + 1, toks,
                                       Append(currentTok, char), inQuotes)
    ELSE IF char = "(" \/ char = ")"
    THEN IF trim(currentTok) # <<>>
         THEN tokenizeFromDroppingOpenQuote(expression, i + 1,
                Append(Append(toks, trim(currentTok)), <<char>>),
                <<>>, inQuotes)
         ELSE tokenizeFromDroppingOpenQuote(expression, i + 1,
                Append(toks, <<char>>), currentTok, inQuotes)
    ELSE IF char = " " \/ char = "\t"
    THEN IF trim(currentTok) # <<>>
         THEN tokenizeFromDroppingOpenQuote(expression, i + 1,
                Append(toks, trim(currentTok)), <<>>, inQuotes)
         ELSE tokenizeFromDroppingOpenQuote(expression, i + 1, toks,
                                            currentTok, inQuotes)
    ELSE tokenizeFromDroppingOpenQuote(expression, i + 1, toks,
                                       Append(currentTok, char), inQuotes)

RECURSIVE tokenizeFromKeepingQuotes(_, _, _, _, _)
tokenizeFromKeepingQuotes(expression, i, toks, currentTok, inQuotes) ==
  IF i > Len(expression)
  THEN IF trim(currentTok) # <<>>
       THEN Append(toks, trim(currentTok))
       ELSE toks
  ELSE LET char == expression[i] IN
    IF char = "\""
    THEN tokenizeFromKeepingQuotes(expression, i + 1, toks,
                                   Append(currentTok, char), ~ inQuotes)
    ELSE IF inQuotes
    THEN tokenizeFromKeepingQuotes(expression, i + 1, toks,
                                       Append(currentTok, char), inQuotes)
    ELSE IF char = "(" \/ char = ")"
    THEN IF trim(currentTok) # <<>>
         THEN tokenizeFromKeepingQuotes(expression, i + 1,
                Append(Append(toks, trim(currentTok)), <<char>>),
                <<>>, inQuotes)
         ELSE tokenizeFromKeepingQuotes(expression, i + 1,
                Append(toks, <<char>>), currentTok, inQuotes)
    ELSE IF char = " " \/ char = "\t"
    THEN IF trim(currentTok) # <<>>
         THEN tokenizeFromKeepingQuotes(expression, i + 1,
                Append(toks, trim(currentTok)), <<>>, inQuotes)
         ELSE tokenizeFromKeepingQuotes(expression, i + 1, toks,
                                            currentTok, inQuotes)
    ELSE tokenizeFromKeepingQuotes(expression, i + 1, toks,
                                       Append(currentTok, char), inQuotes)

RECURSIVE tokenizeFromFlushingEmpty(_, _, _, _, _)
tokenizeFromFlushingEmpty(expression, i, toks, currentTok, inQuotes) ==
  IF i > Len(expression)
  THEN IF trim(currentTok) # <<>> THEN Append(toks, trim(currentTok)) ELSE toks
  ELSE LET char == expression[i] IN
    IF char = "\""
    THEN tokenizeFromFlushingEmpty(expression, i + 1, toks, currentTok,
                                   ~ inQuotes)
    ELSE IF inQuotes
    THEN tokenizeFromFlushingEmpty(expression, i + 1, toks,
                                   Append(currentTok, char), inQuotes)
    ELSE IF char = "(" \/ char = ")"
    THEN IF trim(currentTok) # <<>>
         THEN tokenizeFromFlushingEmpty(expression, i + 1,
                Append(Append(toks, trim(currentTok)), <<char>>),
                <<>>, inQuotes)
         ELSE tokenizeFromFlushingEmpty(expression, i + 1,
                Append(toks, <<char>>), currentTok, inQuotes)
    ELSE IF char = " " \/ char = "\t"
    THEN tokenizeFromFlushingEmpty(expression, i + 1,
           Append(toks, trim(currentTok)), <<>>, inQuotes)
    ELSE tokenizeFromFlushingEmpty(expression, i + 1, toks,
                                   Append(currentTok, char), inQuotes)

RECURSIVE tokenizeFrom(_, _, _, _, _)
tokenizeFrom(expression, i, toks, currentTok, inQuotes) ==
  IF i > Len(expression)
  THEN IF trim(currentTok) # <<>> THEN Append(toks, trim(currentTok)) ELSE toks
  ELSE LET char == expression[i] IN
    IF char = "\""
    THEN tokenizeFrom(expression, i + 1, toks, currentTok, ~ inQuotes)
    ELSE IF inQuotes
    THEN tokenizeFrom(expression, i + 1, toks, Append(currentTok, char), inQuotes)
    ELSE IF char = "(" \/ char = ")"
    THEN IF trim(currentTok) # <<>>
         THEN tokenizeFrom(expression, i + 1,
                           Append(Append(toks, trim(currentTok)), <<char>>),
                           <<>>, inQuotes)
         ELSE tokenizeFrom(expression, i + 1, Append(toks, <<char>>),
                           currentTok, inQuotes)
    ELSE IF char = " " \/ char = "\t"
    THEN IF trim(currentTok) # <<>>
         THEN tokenizeFrom(expression, i + 1, Append(toks, trim(currentTok)),
                           <<>>, inQuotes)
         ELSE tokenizeFrom(expression, i + 1, toks, currentTok, inQuotes)
    ELSE tokenizeFrom(expression, i + 1, toks, Append(currentTok, char), inQuotes)

tokenize(expression) == tokenizeFrom(expression, 1, <<>>, <<>>, FALSE)

\* ------------------------------------------------------------------------
\* Recursive-descent parser
\* ------------------------------------------------------------------------
\* the absent current token (currentToken() returning null)
NoToken == <<>>

currentToken(toks, currentIndex) ==
  IF currentIndex < Len(toks) THEN toks[currentIndex + 1] ELSE NoToken

isOperatorCaseSensitive(token, operator) ==
  token # NoToken /\ token = operator

isOperator(token, operator) ==
  token # NoToken /\ toUpperCase(token) = toUpperCase(operator)

AND == <<"A","N","D">>
OR == <<"O","R">>
NOT == <<"N","O","T">>
LPAREN == <<"(">>
RPAREN == <<")">>

\* error messages: the JavaScript message is text followed by token
MissingClosingParenthesis ==
  [text |-> "Missing closing parenthesis", token |-> <<>>]
UnexpectedClosingParenthesis ==
  [text |-> "Unexpected closing parenthesis", token |-> <<>>]
UnexpectedEndOfExpression ==
  [text |-> "Unexpected end of expression", token |-> <<>>]
UnexpectedOperatorUpperCased(token) ==
  [text |-> "Unexpected operator: ", token |-> toUpperCase(token)]

UnexpectedOperator(token) ==
  [text |-> "Unexpected operator: ", token |-> token]
UnexpectedTokensAfterParsing ==
  [text |-> "Unexpected tokens after parsing", token |-> <<>>]
\* the message the catch clause gives for a thrown value that is no Error
InvalidExpression ==
  [text |-> "Invalid expression", token |-> <<>>]

\* outcome of a parse function: a returned node, or a thrown Error (every
\* throw statement of the parser is throw new Error(message)); either way
\* with the cursor where the function left it
Return(node, currentIndex) ==
  [threw |-> FALSE, node |-> node, currentIndex |-> currentIndex]
Throw(message, currentIndex) ==
  [threw |-> TRUE, isError |-> TRUE, message |-> message,
   currentIndex |-> currentIndex]

RECURSIVE parseOrExpression(_, _)
RECURSIVE parseOrLoop(_, _)
RECURSIVE parseAndExpression(_, _)
RECURSIVE parseAndLoop(_, _)
RECURSIVE parseNotExpression(_, _)
RECURSIVE parsePrimaryExpression(_, _)
RECURSIVE parseAndLoopFlat(_, _)

\* left = new OrExpression(left, right), unless parsing right threw
newOrExpression(left, right) ==
  IF right.threw THEN right
  ELSE Return(OrExpression(left.node, right.node), right.currentIndex)

\* the while loop of parseOrExpression; left is the outcome parsed so far
parseOrLoop(toks, left) ==
  IF left.threw THEN left
  ELSE IF isOperator(currentToken(toks, left.currentIndex), OR)
  THEN parseOrLoop(toks,
         newOrExpression(left,
                         parseAndExpression(toks, left.currentIndex + 1)))
  ELSE left

parseOrExpression(toks, currentIndex) ==
  parseOrLoop(toks, parseAndExpression(toks, currentIndex))

\* left = new AndExpression(left, right), unless parsing right threw
newAndExpression(left, right) ==
  IF right.threw THEN right
  ELSE Return(AndExpression(left.node, right.node), right.currentIndex)

\* the while loop of parseAndExpression; left is the outcome parsed so far
parseAndLoopFlat(toks, left) ==
  IF left.threw THEN left
  ELSE IF isOperator(currentToken(toks, left.currentIndex), AND)
  THEN parseAndLoopFlat(toks,
         newAndExpression(left,
                          parseNotExpression(toks, left.currentIndex + 1)))
  ELSE IF isOperator(currentToken(toks, left.currentIndex), OR)
  THEN parseAndLoopFlat(toks,
         newOrExpression(left,
                         parseNotExpression(toks, left.currentIndex + 1)))
  ELSE left

parseAndLoop(toks, left) ==
  IF left.threw THEN left
  ELSE IF isOperator(currentToken(toks, left.currentIndex), AND)
  THEN parseAndLoop(toks,
         newAndExpression(left,
                          parseNotExpression(toks, left.currentIndex + 1)))
  ELSE left

parseAndExpression(toks, currentIndex) ==
  parseAndLoop(toks, parseNotExpression(toks, currentIndex))

\* return new NotExpression(expression), unless parsing expression threw
newNotExpression(expression) ==
  IF expression.threw THEN expression
  ELSE Return(NotExpression(expression.node), expression.currentIndex)

parseNotExpressionLoose(toks, currentIndex) ==
  IF isOperator(currentToken(toks, currentIndex), NOT)
  THEN newNotExpression(parseAndExpression(toks, currentIndex + 1))
  ELSE parsePrimaryExpression(toks, currentIndex)

parseNotExpressionOnce(toks, currentIndex) ==
  IF isOperator(currentToken(toks, currentIndex), NOT)
  THEN newNotExpression(parsePrimaryExpression(toks, currentIndex + 1))
  ELSE parsePrimaryExpression(toks, currentIndex)

parseNotExpression(toks, currentIndex) ==
  IF isOperator(currentToken(toks, currentIndex), NOT)
  THEN newNotExpression(parseNotExpression(toks, currentIndex + 1))
  ELSE parsePrimaryExpression(toks, currentIndex)

\* after the expression inside parentheses: the check for ')' and its
\* consumption
closeParenthesisNotConsuming(toks, expression) ==
  IF expression.threw THEN expression
  ELSE IF currentToken(toks, expression.currentIndex) # RPAREN
  THEN Throw(MissingClosingParenthesis, expression.currentIndex)
  ELSE Return(expression.node, expression.currentIndex)

closeParenthesisAtEnd(toks, expression) ==
  IF expression.threw THEN expression
  ELSE IF currentToken(toks, expression.currentIndex) = NoToken
  THEN Return(expression.node, expression.currentIndex)
  ELSE IF currentToken(toks, expression.currentIndex) # RPAREN
  THEN Throw(MissingClosingParenthesis, expression.currentIndex)
  ELSE Return(expression.node, expression.currentIndex + 1)

closeParenthesis(toks, expression) ==
  IF expression.threw THEN expression
  ELSE IF currentToken(toks, expression.currentIndex) # RPAREN
  THEN Throw(MissingClosingParenthesis, expression.currentIndex)
  ELSE Return(expression.node, expression.currentIndex + 1)

\* parsePrimaryExpression once the current token is read
parsePrimaryTokenNoEndCheck(toks, currentIndex, token) ==
  IF token = LPAREN
  THEN closeParenthesis(toks, parseOrExpression(toks, currentIndex + 1))
  ELSE IF token = RPAREN
  THEN Throw(UnexpectedClosingParenthesis, currentIndex)
  ELSE IF isOperator(token, AND) \/ isOperator(token, OR)
  THEN Throw(UnexpectedOperator(token), currentIndex)
  ELSE Return(TermExpression(token), currentIndex + 1)

parsePrimaryTokenNotConsuming(toks, currentIndex, token) ==
  IF token = LPAREN
  THEN closeParenthesis(toks, parseOrExpression(toks, currentIndex + 1))
  ELSE IF token = RPAREN
  THEN Throw(UnexpectedClosingParenthesis, currentIndex)
  ELSE IF token = NoToken
  THEN Throw(UnexpectedEndOfExpression, currentIndex)
  ELSE IF isOperator(token, AND) \/ isOperator(token, OR)
  THEN Throw(UnexpectedOperator(token), currentIndex)
  ELSE Return(TermExpression(token), currentIndex)

parsePrimaryTokenNoCloseCheck(toks, currentIndex, token) ==
  IF token = LPAREN
  THEN closeParenthesis(toks, parseOrExpression(toks, currentIndex + 1))
  ELSE IF token = NoToken
  THEN Throw(UnexpectedEndOfExpression, currentIndex)
  ELSE IF isOperator(token, AND) \/ isOperator(token, OR)
  THEN Throw(UnexpectedOperator(token), currentIndex)
  ELSE Return(TermExpression(token), currentIndex + 1)

parsePrimaryToken(toks, currentIndex, token) ==
  IF token = LPAREN
  THEN closeParenthesis(toks, parseOrExpression(toks, currentIndex + 1))
  ELSE IF token = RPAREN
  THEN Throw(UnexpectedClosingParenthesis, currentIndex)
  ELSE IF token = NoToken
  THEN Throw(UnexpectedEndOfExpression, currentIndex)
  ELSE IF isOperator(token, AND) \/ isOperator(token, OR)
  THEN Throw(UnexpectedOperator(token), currentIndex)
  ELSE Return(TermExpression(token), currentIndex + 1)

parsePrimaryExpression(toks, currentIndex) ==
  parsePrimaryToken(toks, currentIndex, currentToken(toks, currentIndex))

\* ------------------------------------------------------------------------
\* parse
\* ------------------------------------------------------------------------
\* the ParseResult object literals (errorMessage is an optional field)
ValidResult(expression) == [expression |-> expression, isValid |-> TRUE]
InvalidResultNoMessage(expression, errorMessage) ==
  [expression |-> expression, isValid |-> FALSE]

InvalidResult(expression, errorMessage) ==
  [expression |-> expression, isValid |-> FALSE, errorMessage |-> errorMessage]

\* no Error object (nothing was caught)
NoError == [text |-> "", token |-> <<>>]

\* the caller holds no ParseResult
NoResult == [expression |-> Null, isValid |-> FALSE, none |-> TRUE]

\* !expression || expression.trim() === ''
isBlankOrNoTokens(expression) ==
  expression = <<>> \/ trim(expression) = <<>> \/ tokenize(expression) = <<>>

isBlank(expression) == expression = <<>> \/ trim(expression) = <<>>

\* The outcome of one call parse(expression):
\*   escaped: an exception left parse; value: the ParseResult returned;
\*   caught: the message of the Error the catch clause received;
\*   tokens, currentIndex: the parser's fields after the call.
\* The early return for a blank filter, on a parser whose fields are toks0
\* and index0.
shortCircuitResetting(toks0, index0) ==
  [escaped |-> FALSE, value |-> ValidResult(Null), caught |-> NoError,
   tokens |-> <<>>, currentIndex |-> 0]

shortCircuit(toks0, index0) ==
  [escaped |-> FALSE, value |-> ValidResult(Null), caught |-> NoError,
   tokens |-> toks0, currentIndex |-> index0]

\* the check after parseOrExpression that every token was consumed
checkAllConsumedLax(toks, result) == result

checkAllConsumedButOne(toks, result) ==
  IF result.threw THEN result
  ELSE IF result.currentIndex + 1 < Len(toks)
  THEN Throw(UnexpectedTokensAfterParsing, result.currentIndex)
  ELSE result

checkAllConsumed(toks, result) ==
  IF result.threw THEN result
  ELSE IF result.currentIndex < Len(toks)
  THEN Throw(UnexpectedTokensAfterParsing, result.currentIndex)
  ELSE result

tryBlock(toks) == checkAllConsumed(toks, parseOrExpression(toks, 0))

\* the catch clause, receiving what the try block threw
catchClauseRethrowing(expression, toks, thrown) ==
  IF thrown.message = UnexpectedTokensAfterParsing
  THEN [escaped |-> TRUE, value |-> NoResult, caught |-> NoError,
        tokens |-> toks, currentIndex |-> thrown.currentIndex]
  ELSE [escaped |-> FALSE,
        value |-> InvalidResult(TermExpression(expression), thrown.message),
        caught |-> thrown.message,
        tokens |-> toks, currentIndex |-> thrown.currentIndex]

catchClauseFirstToken(expression, toks, thrown) ==
  [escaped |-> FALSE,
   value |-> InvalidResult(
               TermExpression(IF toks = <<>> THEN expression ELSE toks[1]),
               thrown.message),
   caught |-> thrown.message,
   tokens |-> toks, currentIndex |-> thrown.currentIndex]

\* error instanceof Error ? error.message : 'Invalid expression'
errorMessageOfNonError(thrown) == InvalidExpression

errorMessageOf(thrown) ==
  IF thrown.isError THEN thrown.message ELSE InvalidExpression

catchClause(expression, toks, thrown) ==
  [escaped |-> FALSE,
   value |-> InvalidResult(TermExpression(expression), errorMessageOf(thrown)),
   caught |-> thrown.message,
   tokens |-> toks, currentIndex |-> thrown.currentIndex]

\* the try statement on the token list: the return inside the try block, or
\* the catch clause
tryCatch(expression, toks, tried) ==
  IF tried.threw
  THEN catchClause(expression, toks, tried)
  ELSE [escaped |-> FALSE, value |-> ValidResult(tried.node),
        caught |-> NoError,
        tokens |-> toks, currentIndex |-> tried.currentIndex]

\* parse after the early return: tokenize, reset the cursor, try
parseTokens(expression, toks) == tryCatch(expression, toks, tryBlock(toks))

parseKeepingCursor(expression, toks0, index0) ==
  IF isBlank(expression)
  THEN shortCircuit(toks0, index0)
  ELSE tryCatch(expression, tokenize(expression),
                checkAllConsumed(tokenize(expression),
                                 parseOrExpression(tokenize(expression),
                                                   index0)))

parse(expression, toks0, index0) ==
  IF isBlank(expression)
  THEN shortCircuit(toks0, index0)
  ELSE parseTokens(expression, tokenize(expression))

\* ------------------------------------------------------------------------
\* State: one TechStackExpressionParser instance and its caller
\* ------------------------------------------------------------------------
VARIABLES
  calls,         \* the filter strings the caller will pass to parse, in order
  history,       \* the filter strings already passed to parse, in order
  techStack,     \* the tag list the caller evaluates the parsed tree against
  expression,    \* the argument of the latest parse call
  tokens,        \* TechStackExpressionParser.tokens
  currentIndex,  \* TechStackExpressionParser.currentIndex
  result,        \* the ParseResult the latest parse call returned
  caught,        \* the message of the Error caught by the latest parse call
  escaped,       \* an exception propagated out of the latest parse call
  value,         \* what result.expression.evaluate(techStack) returned
  pc,            \* "idle": no call yet; "parsed"; "evaluated";
                 \* "evaluatedKept"
  kept           \* the tree a caller keeps from a ParseResult: the string it
                 \* was parsed from, the number of parse calls made by then,
                 \* and the tag lists it has been evaluated against since

\* JobListComponent and ComparisonService
VARIABLES
  techStackFilter,         \* JobListComponent.techStackFilter
  techStackFilterIsValid,  \* JobListComponent.techStackFilterIsValid
  techStackErrorMessage,   \* JobListComponent.techStackErrorMessage
  dataSourceFilter,        \* the techStack field of dataSource.filter
  data,                    \* dataSource.data
  filteredData,            \* dataSource.filteredData
  isLoading,               \* JobListComponent.isLoading
  paginator,               \* JobListComponent.paginator is set
  called,                  \* the latest call on the component
  jobIds,                  \* ComparisonService._jobIds
  showComparisonView       \* ComparisonService.showComparisonView

parserVars == <<calls, history, techStack, expression, tokens, currentIndex,
                result, caught, escaped, value, pc, kept>>
jobListVars == <<techStackFilter, techStackFilterIsValid,
                 techStackErrorMessage, dataSourceFilter, data, filteredData,
                 isLoading, paginator, called>>
comparisonVars == <<jobIds, showComparisonView>>

vars == <<parserVars, jobListVars, comparisonVars>>

\* no tree kept
NoKept == [expression |-> Null, source |-> <<>>, at |-> 0, lists |-> <<>>]

\* new TechStackExpressionParser(), before any call
InitParser ==
  /\ kept = NoKept
  /\ history = <<>>
  /\ tokens = <<>>
  /\ currentIndex = 0
  /\ expression = <<>>
  /\ result = NoResult
  /\ caught = NoError
  /\ escaped = FALSE
  /\ value = FALSE
  /\ pc = "idle"

\* the fields of a new JobListComponent after ngOnInit(): the jobs are
\* being loaded, the data source has no row and the empty filter
InitJobList ==
  /\ techStackFilter = <<>>
  /\ techStackFilterIsValid = TRUE
  /\ techStackErrorMessage = NoError
  /\ dataSourceFilter = <<>>
  /\ data = <<>>
  /\ filteredData = <<>>
  /\ isLoading = TRUE
  /\ paginator = FALSE
  /\ called = "ngOnInit"

\* the fields of a new ComparisonService that found stored in localStorage
InitComparisonService(stored) ==
  /\ jobIds = stored
  /\ showComparisonView = FALSE

\* parser.parse(Head(calls))
Parse ==
  /\ calls # <<>>
  /\ LET call == parse(Head(calls), tokens, currentIndex) IN
       /\ expression' = Head(calls)
       /\ tokens' = call.tokens
       /\ currentIndex' = call.currentIndex
       /\ escaped' = call.escaped
       /\ caught' = call.caught
       /\ result' = IF call.escaped THEN NoResult ELSE call.value
  /\ calls' = Tail(calls)
  /\ history' = Append(history, Head(calls))
  /\ value' = FALSE
  /\ pc' = "parsed"
  /\ UNCHANGED <<techStack, kept, jobListVars, comparisonVars>>

\* result.expression.evaluate(techStack)
Evaluate ==
  /\ pc = "parsed"
  /\ result.expression # Null
  /\ value' = evaluateCall(result.expression, techStack).value
  /\ techStack' = evaluateCall(result.expression, techStack).techStack
  /\ result' = [result EXCEPT
                  !.expression = evaluateCall(@, techStack).node]
  /\ pc' = "evaluated"
  /\ UNCHANGED <<calls, history, expression, tokens, currentIndex, caught,
                 escaped, kept>>
  /\ UNCHANGED <<jobListVars, comparisonVars>>

\* const result = parser.parse(...): the caller keeps the result of the latest
\* call to evaluate its tree later
KeepTree ==
  /\ pc \in {"parsed", "evaluated"}
  /\ result.expression # Null
  /\ kept = NoKept
  /\ kept' = [expression |-> result.expression, source |-> expression,
              at |-> Len(history), lists |-> <<>>]
  /\ UNCHANGED <<calls, history, techStack, expression, tokens, currentIndex,
                 result, caught, escaped, value, pc>>
  /\ UNCHANGED <<jobListVars, comparisonVars>>

\* result.expression.evaluate(tags) on the kept result, whatever the parser
\* has been used for since
EvaluateKept(tags) ==
  /\ kept # NoKept
  /\ Len(kept.lists) < MaxEvaluations
  /\ value' = evaluateCall(kept.expression, tags).value
  /\ techStack' = evaluateCall(kept.expression, tags).techStack
  /\ kept' = [kept EXCEPT !.expression = evaluateCall(@, tags).node,
                          !.lists = Append(@, tags)]
  /\ pc' = "evaluatedKept"
  /\ UNCHANGED <<calls, history, expression, tokens, currentIndex, result,
                 caught, escaped>>
  /\ UNCHANGED <<jobListVars, comparisonVars>>

Next == Parse \/ Evaluate

\* ------------------------------------------------------------------------
\* Inputs
\* ------------------------------------------------------------------------
SeqsUpTo(S, n) == UNION {[1..k -> S] : k \in 0..n}

\* the strings of a list, one after the other
RECURSIVE Concat(_)
Concat(strings) ==
  IF strings = <<>> THEN <<>> ELSE Head(strings) \o Concat(Tail(strings))

\* the strings of a list with single spaces between them
RECURSIVE Join(_)
Join(lexemes) ==
  IF lexemes = <<>> THEN <<>>
  ELSE IF Len(lexemes) = 1 THEN Head(lexemes)
  ELSE Head(lexemes) \o <<" ">> \o Join(Tail(lexemes))

\* n NOT tokens in front of an operand
RECURSIVE NotChain(_, _)
NotChain(n, operand) ==
  IF n = 0 THEN operand ELSE NOT \o <<" ">> \o NotChain(n - 1, operand)

\* n pairs of parentheses around a string
RECURSIVE Wrap(_, _)
Wrap(n, s) ==
  IF n = 0 THEN s ELSE LPAREN \o Wrap(n - 1, s) \o RPAREN

\* Family 1: raw strings enumerated character by character, and expressions
\* written lexeme by lexeme with single spaces between
Chars == {"a", "\"", "(", ")", " ", "\t", "\n"}
CharInputs == SeqsUpTo(Chars, MaxChars)
Lexemes == {<<"a">>, <<"b">>, AND, OR, NOT, LPAREN, RPAREN}
LexInputs == {Join(ls) : ls \in SeqsUpTo(Lexemes, MaxLexemes)}
GenericTagLists == {<< <<"a">> >>, << <<"a", " ", "a", "n", "d">> >>}

\* Family 2: expressions of fixed shapes over three terms, against tag lists
\* that match them exactly, up to case and padding, or only by overlap
TermC == <<"C">>
TermPy == <<"P", "y">>
TermPython == <<"P", "y", "t", "h", "o", "n">>
Terms == {TermC, TermPy, TermPython}
EvalTags == {<<"C">>, <<" ", "p", "Y", " ">>, TermPython,
             <<"R", "e", "a", "c", "t">>, NullTag}
\* every tag list up to the bound, and one that matches all three terms
EvalTagLists == SeqsUpTo(EvalTags, MaxTags)
                  \cup {<< <<"C">>, <<" ", "p", "Y", " ">>, TermPython >>}

OrAnd(a, b, c) == Join(<<a, OR, b, AND, c>>)
AndOr(a, b, c) == Join(<<a, AND, b, OR, c>>)
NotAnd(a, b) == Join(<<NOT, a, AND, b>>)
AndNot(a, b) == Join(<<a, AND, NOT, b>>)
ParenOrAnd(a, b, c) == Concat(<<LPAREN, Join(<<a, OR, b>>), RPAREN>>)
                         \o <<" ">> \o Join(<<AND, c>>)
NotParenAnd(a, b) == NOT \o <<" ">>
                       \o Concat(<<LPAREN, Join(<<a, AND, b>>), RPAREN>>)
AndAnd(a, b, c) == Join(<<a, AND, b, AND, c>>)
OrOr(a, b, c) == Join(<<a, OR, b, OR, c>>)

TemplateInputs ==
  {NotChain(n, t) : n \in 0..MaxNots, t \in Terms}
  \cup {NotAnd(a, b) : a \in Terms, b \in Terms}
  \cup {AndNot(a, b) : a \in Terms, b \in Terms}
  \cup {NotParenAnd(a, b) : a \in Terms, b \in Terms}
  \cup UNION {{OrAnd(a, b, c), AndOr(a, b, c), ParenOrAnd(a, b, c),
               AndAnd(a, b, c), OrOr(a, b, c)} :
              a \in Terms, b \in Terms, c \in Terms}

\* Family 3: several calls on one parser instance: blank filters, valid
\* ones, and ones that fail with the cursor inside the token list
ReuseInputs == {<<>>, <<" ">>, <<"\t", "\n">>, <<"a">>,
                Join(<<<<"a">>, AND, <<"b">>>>), Join(<<<<"a">>, <<"b">>>>),
                Join(<<<<"a">>, AND>>), <<"(", "a">>, <<")">>, AND}
ReuseTags == {<<"a">>}

\* Family 4: keywords in other letter cases, terms that merely look like
\* keywords, and quoted multi-word terms, against tag lists holding those
\* terms, their single words, and null or empty entries
AndWords == {AND, <<"a", "n", "d">>, <<"A", "n", "d">>}
OrWords == {OR, <<"o", "r">>, <<"O", "r">>}
NotWords == {NOT, <<"n", "o", "t">>, <<"N", "o", "t">>}
Android == <<"A", "n", "d", "r", "o", "i", "d">>
Oracle == <<"O", "r", "a", "c", "l", "e">>
Notion == <<"N", "o", "t", "i", "o", "n">>
Lookalikes == {Android, Oracle, Notion}
WordTerms == {TermPy} \cup Lookalikes

KeywordInputs ==
  WordTerms
  \cup {Join(<<a, w, b>>) :
          a \in WordTerms, w \in AndWords \cup OrWords, b \in WordTerms}
  \cup {Join(<<w, a>>) : w \in NotWords, a \in WordTerms}
  \cup {Join(<<TermPy, l, TermPy>>) : l \in Lookalikes}
  \cup {Join(<<l, TermPy>>) : l \in Lookalikes}

Machine == <<"M", "a", "c", "h", "i", "n", "e">>
Learning == <<"L", "e", "a", "r", "n", "i", "n", "g">>
MachineLearning == Machine \o <<" ">> \o Learning
Quoted(s) == <<"\"">> \o s \o <<"\"">>

QuotedInputs ==
  {Quoted(MachineLearning),
   Quoted(<<" ", "a", " ", " ", "b", "\t">>),
   Quoted(<<"(", "a", " ", ")">>),
   MachineLearning,
   Join(<<Quoted(MachineLearning), AND, TermPy>>),
   Join(<<TermPy, OR, Quoted(MachineLearning)>>),
   Join(<<NOT, Quoted(MachineLearning)>>)}

\* malformed filters: the examples of the error classes, and AND/OR in
\* every letter case where an operand is expected
ErrorInputs ==
  {LPAREN \o TermPython,
   <<"(", "a", " ", "b", ")">>}
  \cup UNION {{w, Join(<<w, TermPy>>), Join(<<TermPy, AND, w>>),
               Join(<<LPAREN, w>>), Join(<<NOT, w>>)} :
              w \in AndWords \cup OrWords}

\* the examples of the parser's header comment and of the help dialog
Django == <<"D", "j", "a", "n", "g", "o">>
Post == <<"P", "o", "s", "t">>
PostgreSQL == <<"P", "o", "s", "t", "g", "r", "e", "S", "Q", "L">>
PythonNotDjango == Join(<<TermPython, NOT, Django>>)
PythonAndOpenQuote ==
  Join(<<TermPython, AND, <<"\"">> \o MachineLearning>>)
PythonQuotedAndDjango == Join(<<TermPython, Quoted(AND), Django>>)

\* keywords and parentheses written in quotes
QuotedKeywordInputs ==
  {Join(<<TermPython, Quoted(w), Django>>) :
     w \in {OR, <<"a", "n", "d">>, <<"O", "r">>, <<" ", "A", "N", "D">>}}
  \cup {Join(<<Quoted(NOT), TermPython>>),
        Join(<<Quoted(<<"n", "o", "t">>), Quoted(Django)>>),
        Join(<<Quoted(LPAREN), TermPython, Quoted(RPAREN)>>),
        Quoted(LPAREN) \o TermPython \o Quoted(RPAREN),
        Join(<<TermPython, <<"A", "\"", "N", "\"", "D">>, Django>>),
        Quoted(AND), Quoted(OR), Quoted(NOT), Quoted(LPAREN), Quoted(RPAREN)}

DocumentedInputs ==
  {PythonNotDjango,
   Post,
   PythonAndOpenQuote,
   Join(<<TermPython, AND, Quoted(MachineLearning)>>),
   PythonQuotedAndDjango,
   Join(<<TermPython, AND, Django>>)}

WordTagLists ==
  {<<>>,
   <<TermPython>>,
   <<TermPython, Django>>,
   <<PostgreSQL>>,
   <<TermPython, MachineLearning>>,
   <<TermPy>>,
   <<Android, Oracle>>,
   <<NullTag, <<"n", "o", "t", "i", "o", "n">>, TermPy>>,
   <<AND, <<"o", "r">>, NOT>>,
   <<MachineLearning, TermPy>>,
   <<Machine, Learning, TermPy>>,
   <<NullTag, <<>>, toLowerCase(MachineLearning) \o <<" ">>, <<" ">> >>}

\* one filter written with extra spaces and tabs, and without
PythonAndDjangoPadded ==
  <<" ", " ">> \o TermPython \o <<" ", " ", " ">> \o AND
    \o <<" ", "\t", " ">> \o Django \o <<" ", " ">>
SpacingInputs == {PythonAndDjangoPadded, Join(<<TermPython, AND, Django>>)}

\* one filter with its last quote left open, and closed
OpenQuoteInputs == {PythonAndOpenQuote, Append(PythonAndOpenQuote, "\"")}

\* one new parser for each family of inputs
InitGeneric ==
  /\ InitParser
  /\ InitJobList
  /\ InitComparisonService(<<>>)
  /\ calls \in {<<e>> : e \in CharInputs \cup LexInputs \cup ErrorInputs
                                     \cup SpacingInputs \cup OpenQuoteInputs}
  /\ techStack \in GenericTagLists

InitTemplates ==
  /\ InitParser
  /\ InitJobList
  /\ InitComparisonService(<<>>)
  /\ calls \in {<<e>> : e \in TemplateInputs}
  /\ techStack \in EvalTagLists

InitReuse ==
  /\ InitParser
  /\ InitJobList
  /\ InitComparisonService(<<>>)
  /\ calls \in SeqsUpTo(ReuseInputs, MaxCalls)
  /\ techStack \in SeqsUpTo(ReuseTags, 1)

InitWords ==
  /\ InitParser
  /\ InitJobList
  /\ InitComparisonService(<<>>)
  /\ calls \in {<<e>> : e \in KeywordInputs \cup QuotedInputs
                                     \cup DocumentedInputs
                                     \cup QuotedKeywordInputs}
  /\ techStack \in WordTagLists

Init == InitGeneric \/ InitTemplates \/ InitReuse \/ InitWords

\* every family of inputs
Spec == Init /\ [][Next]_vars

\* the raw strings and the malformed filters alone
SpecGeneric == InitGeneric /\ [][Next]_vars

\* several calls on one parser instance alone
SpecReuse == InitReuse /\ [][Next]_vars

\* the keyword spellings and the quoted terms alone
SpecWords == InitWords /\ [][Next]_vars

\* Family 5: trees kept by the caller while the parser is used again: the
\* expression and the tag lists of the test "C AND NOT Py", a single term, a
\* string that fails to parse and a blank one, and a list with a null entry
\* and a padded tag in another letter case
TagC == <<"C">>
TagPy == <<"P", "y">>
TagReact == <<"R", "e", "a", "c", "t">>
TagNode == <<"N", "o", "d", "e">>
CAndNotPy == Join(<<TagC, AND, NOT, TagPy>>)
KeptInputs == {CAndNotPy, TagPy, Join(<<TagC, AND>>), <<" ">>}
KeptTagLists == {<<TagC, TagReact, TagNode>>, <<TagC, TagPy, TagNode>>,
                 <<TagReact, TagNode>>, <<NullTag, <<"p", "Y", " ">> >>}

InitKept ==
  /\ InitParser
  /\ InitJobList
  /\ InitComparisonService(<<>>)
  /\ calls \in SeqsUpTo(KeptInputs, MaxCalls)
  /\ techStack \in KeptTagLists

NextKept ==
  \/ Parse
  \/ Evaluate
  \/ KeepTree
  \/ \E tags \in KeptTagLists : EvaluateKept(tags)

\* a caller that keeps one tree and evaluates it again and again
SpecKept == InitKept /\ [][NextKept]_vars


\* ------------------------------------------------------------------------
\* JobListComponent: the tech-stack filter field, its validation and the
\* filtering of the table rows
\* ------------------------------------------------------------------------
\* the filters typed into the field: valid, invalid, white space, empty
FilterEdits == {<<>>, <<" ">>, TermPy, Join(<<TermPy, AND>>)}

\* the jobs jobs.json may hold: with a list of tags as tech_stack, or with
\* a null tech_stack (the record has no such field)
Jobs ==
  {[id |-> "1", tech_stack |-> <<<<"p", "y", " ">>, <<"G", "o">>>>],
   [id |-> "2"]}

\* the fields of the component's parser and of its caller, as one record
parserState ==
  [history |-> history, techStack |-> techStack, expression |-> expression,
   tokens |-> tokens, currentIndex |-> currentIndex, result |-> result,
   caught |-> caught, escaped |-> escaped, value |-> value, pc |-> pc]

\* the fields after this.techStackParser.parse(s)
afterParse(P, s, call) ==
  [P EXCEPT !.history = Append(@, s),
            !.expression = s,
            !.tokens = call.tokens,
            !.currentIndex = call.currentIndex,
            !.escaped = call.escaped,
            !.caught = call.caught,
            !.result = IF call.escaped THEN NoResult ELSE call.value,
            !.value = FALSE,
            !.pc = "parsed"]

\* job.tech_stack || []
techStackOrEmpty(job) ==
  IF "tech_stack" \in DOMAIN job THEN job.tech_stack ELSE <<>>

\* the fields after parseResult.expression.evaluate(job.tech_stack || [])
afterEvaluate(P, job) ==
  IF P.result.expression # Null
  THEN [P EXCEPT !.techStack = techStackOrEmpty(job),
                 !.value = evaluate(P.result.expression,
                                    techStackOrEmpty(job)),
                 !.pc = "evaluated"]
  ELSE P

\* the fields after one call of the filter predicate, the other filters
\* being empty: the tech-stack part
filterPredicate(P, job, filter) ==
  IF filter # <<>>
  THEN afterEvaluate(
         afterParse(P, filter, parse(filter, P.tokens, P.currentIndex)),
         job)
  ELSE P

\* techStackMatch, which the predicate returns when the other filters are
\* empty
techStackMatch(job, parseResult, filter) ==
  IF filter # <<>> /\ parseResult.expression # Null
  THEN evaluate(parseResult.expression, techStackOrEmpty(job))
  ELSE TRUE

\* the data source filters its rows again: the predicate on each row in
\* turn (MatTableDataSource does so when filter, data, paginator or sort is
\* assigned, and calls no predicate while filter is the empty string, which
\* is before the first applyFilters())
RECURSIVE filterData(_, _, _)
filterData(P, rows, filter) ==
  IF rows = <<>> THEN P
  ELSE filterData(filterPredicate(P, Head(rows), filter), Tail(rows), filter)

\* dataSource.filteredData after that
filteredRows(rows, filter) ==
  SelectSeq(rows, LAMBDA job :
    techStackMatch(job, parse(filter, <<>>, 0).value, filter))

\* the rows filtered again, once and once more for each of the two flags
filterDataAgain(P, rows, filter, again, andAgain) ==
  filterData(
    IF again
    THEN filterData(
           IF andAgain THEN filterData(P, rows, filter) ELSE P, rows, filter)
    ELSE IF andAgain THEN filterData(P, rows, filter) ELSE P,
    rows, filter)

\* the parser's fields and its caller's become those of the record
parserBecomes(P) ==
  /\ history' = P.history
  /\ techStack' = P.techStack
  /\ expression' = P.expression
  /\ tokens' = P.tokens
  /\ currentIndex' = P.currentIndex
  /\ result' = P.result
  /\ caught' = P.caught
  /\ escaped' = P.escaped
  /\ value' = P.value
  /\ pc' = P.pc

\* parseResult.errorMessage || ''
errorMessageOrEmpty(parseResult) ==
  IF "errorMessage" \in DOMAIN parseResult
  THEN parseResult.errorMessage
  ELSE NoError

\* the validation at the head of applyFilters(): the two fields it assigns
\* and the parser after it
validationKeepingError(P, filter) ==
  IF filter # <<>>
  THEN [parser |->
          afterParse(P, filter, parse(filter, P.tokens, P.currentIndex)),
        isValid |-> parse(filter, P.tokens, P.currentIndex).value.isValid,
        errorMessage |->
          errorMessageOrEmpty(parse(filter, P.tokens, P.currentIndex).value)]
  ELSE [parser |-> P, isValid |-> techStackFilterIsValid,
        errorMessage |-> techStackErrorMessage]

validation(P, filter) ==
  IF filter # <<>>
  THEN [parser |->
          afterParse(P, filter, parse(filter, P.tokens, P.currentIndex)),
        isValid |-> parse(filter, P.tokens, P.currentIndex).value.isValid,
        errorMessage |->
          errorMessageOrEmpty(parse(filter, P.tokens, P.currentIndex).value)]
  ELSE [parser |-> P, isValid |-> TRUE, errorMessage |-> NoError]

\* applyFilters() with this.techStackFilter holding filter: the validation;
\* dataSource.filter = JSON.stringify({..., techStack: filter, ...}), on which
\* the rows are filtered; firstPage() and updatePageSizeOptions(), which
\* touch no field modelled here; and, when this.paginator is set,
\* dataSource.paginator = this.paginator, on which the rows are filtered again
applyFiltersValidated(checked, filter) ==
  /\ techStackFilterIsValid' = checked.isValid
  /\ techStackErrorMessage' = checked.errorMessage
  /\ dataSourceFilter' = filter
  /\ filteredData' = filteredRows(data, filter)
  /\ parserBecomes(
       filterDataAgain(checked.parser, data, filter, paginator, FALSE))
  /\ UNCHANGED <<calls, kept, data, isLoading, paginator, comparisonVars>>

applyFilters(filter) ==
  applyFiltersValidated(validation(parserState, filter), filter)

\* the user edits the field: this.techStackFilter = filter
EditTechStackFilter ==
  \E filter \in FilterEdits :
    /\ techStackFilter' = filter
    /\ called' = "edit"
    /\ UNCHANGED <<techStackFilterIsValid, techStackErrorMessage,
                   dataSourceFilter, data, filteredData, isLoading,
                   paginator>>
    /\ UNCHANGED <<parserVars, comparisonVars>>

\* the parse calls one applyFilters() with a filter makes and causes: its
\* own, and one for each row each time the rows are filtered
callsOfApplyFilters ==
  1 + Len(data) * (IF paginator THEN 2 ELSE 1)

\* applyFilters(); it parses while fewer parse calls were made than
\* MaxApplies of them make
ApplyFilters ==
  /\ techStackFilter # <<>> =>
       Len(history) < MaxApplies * callsOfApplyFilters
  /\ applyFilters(techStackFilter)
  /\ called' = "applyFilters"
  /\ UNCHANGED techStackFilter

\* clearFilters(): every filter field emptied, then applyFilters()
ClearFilters ==
  /\ techStackFilter' = <<>>
  /\ applyFilters(<<>>)
  /\ called' = "clearFilters"

\* the next callback of loadJobs(): the jobs arrive.  dataSource.data =
\* jobs, on which the rows are filtered; after detectChanges() the view
\* children this.paginator and this.sort are set or not (the template
\* decides), and assigning each to the data source filters the rows again
LoadJobs ==
  /\ isLoading
  /\ \E jobs \in SeqsUpTo(Jobs, MaxRows),
        paginatorSet \in BOOLEAN, sortSet \in BOOLEAN :
       /\ data' = jobs
       /\ isLoading' = FALSE
       /\ paginator' = paginatorSet
       /\ filteredData' = filteredRows(jobs, dataSourceFilter)
       /\ parserBecomes(filterDataAgain(parserState, jobs, dataSourceFilter,
                                        paginatorSet, sortSet))
  /\ called' = "loadJobs"
  /\ UNCHANGED <<techStackFilter, techStackFilterIsValid,
                 techStackErrorMessage, dataSourceFilter>>
  /\ UNCHANGED <<calls, kept, comparisonVars>>

\* the error callback of loadJobs(): no jobs arrive; after detectChanges()
\* the view child this.paginator is set or not (the template decides), and
\* nothing is assigned to the data source
LoadJobsError ==
  /\ isLoading
  /\ isLoading' = FALSE
  /\ \E paginatorSet \in BOOLEAN : paginator' = paginatorSet
  /\ called' = "loadJobs"
  /\ UNCHANGED <<techStackFilter, techStackFilterIsValid,
                 techStackErrorMessage, dataSourceFilter, data, filteredData>>
  /\ UNCHANGED <<parserVars, comparisonVars>>

NextJobList ==
  \/ EditTechStackFilter
  \/ ApplyFilters
  \/ ClearFilters
  \/ LoadJobs
  \/ LoadJobsError

\* a new component with its new parser, after ngOnInit()
InitJobListComponent ==
  /\ InitParser
  /\ calls = <<>>
  /\ techStack = <<>>
  /\ InitJobList
  /\ InitComparisonService(<<>>)

SpecJobList == InitJobListComponent /\ [][NextJobList]_vars

\* ------------------------------------------------------------------------
\* ComparisonService
\* ------------------------------------------------------------------------
\* the ids of the jobs
JobIds == {"a", "b", "c"}

\* addJob(job), job.id = id
AddJob ==
  \E id \in JobIds :
    /\ jobIds' = IF \E n \in 1..Len(jobIds) : jobIds[n] = id
                 THEN jobIds
                 ELSE Append(jobIds, id)
    /\ UNCHANGED showComparisonView
    /\ UNCHANGED <<parserVars, jobListVars>>

\* removeJob(jobId)
RemoveJob ==
  \E jobId \in JobIds :
    LET ids == SelectSeq(jobIds, LAMBDA id : id # jobId) IN
      /\ jobIds' = ids
      /\ showComparisonView' =
           IF Len(ids) = 0 THEN FALSE ELSE showComparisonView
      /\ UNCHANGED <<parserVars, jobListVars>>

\* clearAll()
ClearAll ==
  /\ jobIds' = <<>>
  /\ showComparisonView' = FALSE
  /\ UNCHANGED <<parserVars, jobListVars>>

\* reorderJobs(newOrder): newOrder.map(j => j.id) are the ids of newOrder
ReorderJobs ==
  \E newOrder \in SeqsUpTo(JobIds, MaxOrder) :
    /\ jobIds' = newOrder
    /\ UNCHANGED showComparisonView
    /\ UNCHANGED <<parserVars, jobListVars>>

\* openComparisonView()
OpenComparisonView ==
  /\ showComparisonView' =
       IF Len(jobIds) >= 1 THEN TRUE ELSE showComparisonView
  /\ UNCHANGED jobIds
  /\ UNCHANGED <<parserVars, jobListVars>>

\* closeComparisonView()
CloseComparisonView ==
  /\ showComparisonView' = FALSE
  /\ UNCHANGED jobIds
  /\ UNCHANGED <<parserVars, jobListVars>>

NextComparison ==
  \/ AddJob
  \/ RemoveJob
  \/ ClearAll
  \/ ReorderJobs
  \/ OpenComparisonView
  \/ CloseComparisonView

\* a new service: the ids are what loadFromStorage found in localStorage
InitComparison ==
  /\ InitParser
  /\ calls = <<>>
  /\ techStack = <<>>
  /\ InitJobList
  /\ \E stored \in SeqsUpTo(JobIds, MaxOrder) : InitComparisonService(stored)

SpecComparison == InitComparison /\ [][NextComparison]_vars

\* ------------------------------------------------------------------------
\* Notions the properties are stated with
\* ------------------------------------------------------------------------
\* a string with no character other than white space
Blank(s) == \A i \in 1..Len(s) : s[i] \in WhiteSpace

\* a string without its leading and trailing white space
Core(s) ==
  LET inked == {i \in 1..Len(s) : s[i] \notin WhiteSpace} IN
    IF inked = {} THEN <<>>
    ELSE SubSeq(s, CHOOSE i \in inked : \A j \in inked : i <= j,
                   CHOOSE i \in inked : \A j \in inked : j <= i)

\* the ASCII letters
UpperLetters == <<"A","B","C","D","E","F","G","H","I","J","K","L","M",
                  "N","O","P","Q","R","S","T","U","V","W","X","Y","Z">>
LowerLetters == <<"a","b","c","d","e","f","g","h","i","j","k","l","m",
                  "n","o","p","q","r","s","t","u","v","w","x","y","z">>

\* two characters equal up to letter case
SameLetter(c, d) ==
  \/ c = d
  \/ \E i \in 1..26 : {c, d} = {UpperLetters[i], LowerLetters[i]}

\* two strings equal up to surrounding white space and letter case
SameText(s, t) ==
  /\ Len(Core(s)) = Len(Core(t))
  /\ \A i \in 1..Len(Core(s)) : SameLetter(Core(s)[i], Core(t)[i])

\* some non-null tag of the list is the text, up to padding and case
HasTag(tags, text) ==
  \E k \in 1..Len(tags) : tags[k] # NullTag /\ SameText(tags[k], text)

\* the ParseResult has a non-empty errorMessage
HasErrorMessage(r) ==
  /\ "errorMessage" \in DOMAIN r
  /\ (r.errorMessage.text # "" \/ r.errorMessage.token # <<>>)

\* ------------------------------------------------------------------------
\* Properties
\* ------------------------------------------------------------------------
\* C1: parse never raises past its own boundary: after every call, on any
\* input string, no exception has escaped and the caller holds a ParseResult;
\* every error thrown inside parse ends as an isValid = false result.
ParseNeverRaises ==
  pc # "idle" =>
    /\ ~ escaped
    /\ result # NoResult
    /\ result.isValid \in BOOLEAN
    /\ (caught # NoError => ~ result.isValid)

\* C1 witness: a malformed input (trailing tokens) was parsed, its error was
\* caught and a ParseResult returned
ParseErrorWasCaught ==
  /\ pc = "parsed"
  /\ expression = <<"a", " ", "b">>
  /\ caught = UnexpectedTokensAfterParsing
  /\ ~ escaped
  /\ ~ result.isValid

\* C2: an invalid ParseResult has a non-empty errorMessage and a non-null
\* expression; the ParseResult of the empty input is valid, with a null
\* expression and no errorMessage.
InvalidResultHasMessageAndExpression ==
  pc # "idle" =>
    /\ (~ result.isValid =>
          HasErrorMessage(result) /\ result.expression # Null)
    /\ (expression = <<>> =>
          /\ result.isValid
          /\ result.expression = Null
          /\ "errorMessage" \notin DOMAIN result)

\* C2 witness: an unbalanced parenthesis gave an invalid ParseResult with a
\* message and an expression
InvalidResultReturned ==
  /\ pc = "parsed"
  /\ expression = <<"(", "a">>
  /\ ~ result.isValid
  /\ result.errorMessage = MissingClosingParenthesis
  /\ result.expression # Null

\* C3: on a parse failure the expression returned is one Term holding the
\* whole raw input string, isValid is false and errorMessage is the message
\* of the error caught; evaluating it is true iff some tag equals the raw
\* string up to surrounding white space and letter case.
FallbackIsTermOfRawString ==
  (pc # "idle" /\ ~ result.isValid) =>
    /\ result.expression = [type |-> "Term", term |-> expression]
    /\ caught # NoError
    /\ result.errorMessage = caught
    /\ (pc = "evaluated" => value = HasTag(techStack, expression))

\* C3 witness: "a AND" failed to parse and its fallback matched the tag
\* "a and"
FallbackMatchedRawString ==
  /\ pc = "evaluated"
  /\ expression = <<"a", " ", "A", "N", "D">>
  /\ ~ result.isValid
  /\ techStack = << <<"a", " ", "a", "n", "d">> >>
  /\ value

\* C4: a parse call on an empty or all-white-space string returns
\* {expression: null, isValid: true} with no errorMessage and leaves the
\* parser's tokens and currentIndex as they were.
BlankInputShortCircuits ==
  [][(calls # <<>> /\ calls' = Tail(calls) /\ Blank(Head(calls))) =>
       /\ result' = [expression |-> Null, isValid |-> TRUE]
       /\ ~ escaped'
       /\ tokens' = tokens
       /\ currentIndex' = currentIndex]_vars

\* C4 witness: a white-space filter was parsed on a parser still holding the
\* tokens and the cursor of an earlier, failed call
BlankParsedOnUsedParser ==
  /\ pc = "parsed"
  /\ expression = <<" ">>
  /\ result = [expression |-> Null, isValid |-> TRUE]
  /\ tokens = << <<"a">>, <<"b">> >>
  /\ currentIndex = 1

\* C5: a Term evaluates to true iff some non-null tag equals the term text
\* up to surrounding white space and letter case; a tag that only contains,
\* starts with or is contained in the term does not match, and no Term
\* matches the empty tag list.
TermMatchesExactly ==
  (pc = "evaluated" /\ result.expression.type = "Term") =>
    /\ value = HasTag(techStack, result.expression.term)
    /\ (techStack = <<>> => ~ value)
    /\ ((\A k \in 1..Len(techStack) :
           techStack[k] = NullTag
           \/ Len(Core(techStack[k])) # Len(Core(result.expression.term)))
        => ~ value)

\* C5 witness: the term Py was evaluated against the tags Python and " pY "
\* and matched (the second one)
TermMatchedPaddedTag ==
  /\ pc = "evaluated"
  /\ result = [expression |-> [type |-> "Term", term |-> TermPy],
               isValid |-> TRUE]
  /\ techStack = <<TermPython, <<" ", "p", "Y", " ">> >>
  /\ value

\* C6: AND binds tighter than OR: for all terms a, b, c and every tag list,
\* "a OR b AND c" is valid and evaluates to a \/ (b /\ c), and
\* "a AND b OR c" is valid and evaluates to (a /\ b) \/ c.
AndBindsTighterThanOr ==
  \A a \in Terms, b \in Terms, c \in Terms :
    /\ (pc # "idle" /\ expression = OrAnd(a, b, c)) =>
         /\ result.isValid
         /\ (pc = "evaluated" =>
               value = (HasTag(techStack, a)
                          \/ (HasTag(techStack, b) /\ HasTag(techStack, c))))
    /\ (pc # "idle" /\ expression = AndOr(a, b, c)) =>
         /\ result.isValid
         /\ (pc = "evaluated" =>
               value = ((HasTag(techStack, a) /\ HasTag(techStack, b))
                          \/ HasTag(techStack, c)))

\* C6 witness: "C OR Py AND Python" was true on the tag C alone, where
\* (C OR Py) AND Python is false
OrAndEvaluatedOnFirstTermOnly ==
  /\ pc = "evaluated"
  /\ expression = OrAnd(TermC, TermPy, TermPython)
  /\ techStack = << <<"C">> >>
  /\ result.isValid
  /\ value

\* C7: NOT binds tighter than AND: for all terms a, b and every tag list,
\* "NOT a AND b" is valid and evaluates to (~a) /\ b, and "a AND NOT b" is
\* valid and evaluates to a /\ ~b.
NotBindsTighterThanAnd ==
  \A a \in Terms, b \in Terms :
    /\ (pc # "idle" /\ expression = NotAnd(a, b)) =>
         /\ result.isValid
         /\ (pc = "evaluated" =>
               value = (~ HasTag(techStack, a) /\ HasTag(techStack, b)))
    /\ (pc # "idle" /\ expression = AndNot(a, b)) =>
         /\ result.isValid
         /\ (pc = "evaluated" =>
               value = (HasTag(techStack, a) /\ ~ HasTag(techStack, b)))

\* C7 witness: "NOT C AND Py" was false on a tag list matching neither term,
\* where NOT (C AND Py) is true
NotAndEvaluatedOnNoTerm ==
  /\ pc = "evaluated"
  /\ expression = NotAnd(TermC, TermPy)
  /\ techStack = << <<"R", "e", "a", "c", "t">> >>
  /\ result.isValid
  /\ ~ value

\* the number of quote characters of a string is even
RECURSIVE EvenQuotes(_)
EvenQuotes(s) ==
  IF s = <<>> THEN TRUE
  ELSE IF Head(s) = "\"" THEN ~ EvenQuotes(Tail(s))
  ELSE EvenQuotes(Tail(s))

\* "(a OR b) AND c" is valid and evaluates to (a \/ b) /\ c, and
\* "NOT (a AND b)" is valid and evaluates to ~(a /\ b)
ParenthesesOverride ==
  /\ \A a \in Terms, b \in Terms, c \in Terms :
       (pc # "idle" /\ expression = ParenOrAnd(a, b, c)) =>
         /\ result.isValid
         /\ (pc = "evaluated" =>
               value = ((HasTag(techStack, a) \/ HasTag(techStack, b))
                          /\ HasTag(techStack, c)))
  /\ \A a \in Terms, b \in Terms :
       (pc # "idle" /\ expression = NotParenAnd(a, b)) =>
         /\ result.isValid
         /\ (pc = "evaluated" =>
               value = ~ (HasTag(techStack, a) /\ HasTag(techStack, b)))

\* a ParseResult that is valid, holds the tree of the expression just parsed
\* and has the same value on the tag list
ResultAlike(wrapped) ==
  /\ wrapped.isValid
  /\ wrapped.expression = result.expression
  /\ evaluate(wrapped.expression, techStack)
       = evaluate(result.expression, techStack)

\* the expression just parsed, in n pairs of parentheses, parses to a valid
\* result with the same tree and the same value
WrappedParsesAlike(n) ==
  ResultAlike(parse(Wrap(n, expression), tokens, currentIndex).value)

\* C8 as claimed: parentheses override precedence, and wrapping ANY valid
\* expression in balanced parentheses yields a valid expression with the
\* same evaluation.
ParenthesesAroundAnyValidExpression ==
  /\ ParenthesesOverride
  /\ (pc = "parsed" /\ result.isValid /\ result.expression # Null) =>
       \A n \in 1..MaxWrap : WrappedParsesAlike(n)

\* C8 as amended: parentheses override precedence, and wrapping a valid
\* expression whose quote characters are balanced (an even number of them)
\* in balanced parentheses yields a valid expression with the same
\* evaluation.
ParenthesesAroundQuoteBalancedExpression ==
  /\ ParenthesesOverride
  /\ (pc = "parsed" /\ result.isValid /\ result.expression # Null
        /\ EvenQuotes(expression)) =>
       \A n \in 1..MaxWrap : WrappedParsesAlike(n)

\* C8 witness: "(C OR Py) AND Python" was false on the tag C alone, where
\* C OR Py AND Python is true
ParenOrAndEvaluatedOnFirstTermOnly ==
  /\ pc = "evaluated"
  /\ expression = ParenOrAnd(TermC, TermPy, TermPython)
  /\ techStack = << <<"C">> >>
  /\ result.isValid
  /\ ~ value

\* a token equal to a keyword up to letter case
IsKeyword(token, word) ==
  /\ Len(token) = Len(word)
  /\ \A i \in 1..Len(word) : SameLetter(token[i], word[i])

\* a token that is neither a parenthesis nor a keyword
IsTermToken(token) ==
  /\ token # LPAREN
  /\ token # RPAREN
  /\ ~ IsKeyword(token, AND)
  /\ ~ IsKeyword(token, OR)
  /\ ~ IsKeyword(token, NOT)

\* The tokens toks[i..j] are derivable from the grammar rule:
\*   Or := And ('OR' And)*      And := Not ('AND' Not)*
\*   Not := 'NOT' Not | Primary    Primary := '(' Or ')' | TERM
RECURSIVE Derives(_, _, _, _)
Derives(rule, toks, i, j) ==
  /\ i <= j
  /\ CASE rule = "Primary" ->
            \/ i = j /\ IsTermToken(toks[i])
            \/ /\ i < j
               /\ toks[i] = LPAREN
               /\ toks[j] = RPAREN
               /\ Derives("Or", toks, i + 1, j - 1)
       [] rule = "Not" ->
            \/ IsKeyword(toks[i], NOT) /\ Derives("Not", toks, i + 1, j)
            \/ Derives("Primary", toks, i, j)
       [] rule = "And" ->
            \/ Derives("Not", toks, i, j)
            \/ \E k \in (i + 1)..(j - 1) :
                 /\ IsKeyword(toks[k], AND)
                 /\ Derives("And", toks, i, k - 1)
                 /\ Derives("Not", toks, k + 1, j)
       [] rule = "Or" ->
            \/ Derives("And", toks, i, j)
            \/ \E k \in (i + 1)..(j - 1) :
                 /\ IsKeyword(toks[k], OR)
                 /\ Derives("Or", toks, i, k - 1)
                 /\ Derives("And", toks, k + 1, j)

\* C9: for a non-blank input, isValid is true exactly when the token list is
\* derivable from the grammar, and then the tree is not null; chains of AND
\* and of OR fold left to right: "a AND b AND c" is true iff all three
\* terms match, "a OR b OR c" iff at least one does.
ValidIffDerivable ==
  /\ (pc # "idle" /\ ~ Blank(expression)) =>
       /\ result.isValid = Derives("Or", tokens, 1, Len(tokens))
       /\ (result.isValid => result.expression # Null)
  /\ \A a \in Terms, b \in Terms, c \in Terms :
       /\ (pc # "idle" /\ expression = AndAnd(a, b, c)) =>
            /\ result.expression =
                 [type |-> "And",
                  left |-> [type |-> "And",
                            left |-> [type |-> "Term", term |-> a],
                            right |-> [type |-> "Term", term |-> b]],
                  right |-> [type |-> "Term", term |-> c]]
            /\ (pc = "evaluated" =>
                  value = (HasTag(techStack, a) /\ HasTag(techStack, b)
                             /\ HasTag(techStack, c)))
       /\ (pc # "idle" /\ expression = OrOr(a, b, c)) =>
            /\ result.expression =
                 [type |-> "Or",
                  left |-> [type |-> "Or",
                            left |-> [type |-> "Term", term |-> a],
                            right |-> [type |-> "Term", term |-> b]],
                  right |-> [type |-> "Term", term |-> c]]
            /\ (pc = "evaluated" =>
                  value = (HasTag(techStack, a) \/ HasTag(techStack, b)
                             \/ HasTag(techStack, c)))

\* C9 witness: "C AND Py AND Python" was accepted and true on a tag list
\* matching all three terms
AndChainMatchedAllThree ==
  /\ pc = "evaluated"
  /\ expression = AndAnd(TermC, TermPy, TermPython)
  /\ techStack = << <<"C">>, <<" ", "p", "Y", " ">>, TermPython >>
  /\ result.isValid
  /\ Derives("Or", tokens, 1, Len(tokens))
  /\ value

\* n Not nodes around a node
RECURSIVE NestedNot(_, _)
NestedNot(n, node) ==
  IF n = 0 THEN node
  ELSE [type |-> "Not", expression |-> NestedNot(n - 1, node)]

\* C10: NOT is chainable and right-associative: n NOT tokens in front of a
\* term parse to n nested Not nodes around the Term, whose value is the
\* term's for even n and its negation for odd n.
NotIsChainable ==
  \A n \in 0..MaxNots, t \in Terms :
    (pc # "idle" /\ expression = NotChain(n, t)) =>
      /\ result.isValid
      /\ result.expression = NestedNot(n, [type |-> "Term", term |-> t])
      /\ (pc = "evaluated" =>
            value = IF n % 2 = 0 THEN HasTag(techStack, t)
                    ELSE ~ HasTag(techStack, t))

\* C10 witness: "NOT NOT Py" parsed to Not(Not(Term(Py))) and was true on a
\* tag list holding Py
DoubleNegationMatched ==
  /\ pc = "evaluated"
  /\ expression = NotChain(2, TermPy)
  /\ result.expression =
       [type |-> "Not",
        expression |-> [type |-> "Not",
                        expression |-> [type |-> "Term", term |-> TermPy]]]
  /\ techStack = << <<" ", "p", "Y", " ">> >>
  /\ value

\* the terms at the leaves of a tree, left to right
RECURSIVE Leaves(_)
Leaves(node) ==
  CASE node.type = "Term" -> <<node.term>>
    [] node.type = "Not"  -> Leaves(node.expression)
    [] node.type = "And"  -> Leaves(node.left) \o Leaves(node.right)
    [] node.type = "Or"   -> Leaves(node.left) \o Leaves(node.right)

\* C11: keywords are recognised on the whole token, whatever its letter
\* case: "a and b", "a And b", "a AND b" all parse to And(a, b), likewise
\* for OR and NOT; a token that only starts with or contains a keyword's
\* letters (Android, Oracle, Notion) is a Term and never an operator.  In
\* every valid tree the leaves are exactly the tokens that are neither a
\* parenthesis nor a whole-token keyword.
KeywordsAreWholeTokens ==
  /\ (pc # "idle" /\ ~ Blank(expression) /\ result.isValid) =>
       Leaves(result.expression) = SelectSeq(tokens, IsTermToken)
  /\ \A a \in WordTerms, b \in WordTerms :
       /\ \A w \in AndWords :
            (pc # "idle" /\ expression = Join(<<a, w, b>>)) =>
              /\ result = [expression |->
                             [type |-> "And",
                              left |-> [type |-> "Term", term |-> a],
                              right |-> [type |-> "Term", term |-> b]],
                           isValid |-> TRUE]
              /\ (pc = "evaluated" =>
                    value = (HasTag(techStack, a) /\ HasTag(techStack, b)))
       /\ \A w \in OrWords :
            (pc # "idle" /\ expression = Join(<<a, w, b>>)) =>
              /\ result = [expression |->
                             [type |-> "Or",
                              left |-> [type |-> "Term", term |-> a],
                              right |-> [type |-> "Term", term |-> b]],
                           isValid |-> TRUE]
              /\ (pc = "evaluated" =>
                    value = (HasTag(techStack, a) \/ HasTag(techStack, b)))
  /\ \A a \in WordTerms, w \in NotWords :
       (pc # "idle" /\ expression = Join(<<w, a>>)) =>
         /\ result = [expression |->
                        [type |-> "Not",
                         expression |-> [type |-> "Term", term |-> a]],
                      isValid |-> TRUE]
         /\ (pc = "evaluated" => value = ~ HasTag(techStack, a))
  /\ \A l \in Lookalikes :
       /\ (pc # "idle" /\ expression = l) =>
            /\ result = [expression |-> [type |-> "Term", term |-> l],
                         isValid |-> TRUE]
            /\ (pc = "evaluated" => value = HasTag(techStack, l))
       /\ (pc # "idle" /\ expression \in {Join(<<TermPy, l, TermPy>>),
                                          Join(<<l, TermPy>>)}) =>
            ~ result.isValid

\* C11 witness: "Android and Oracle", with the keyword in lower case between
\* two terms that start with keyword letters, parsed to And(Android, Oracle)
\* and matched a tag list holding both
LowerCaseAndBetweenLookalikes ==
  /\ pc = "evaluated"
  /\ expression = Join(<<Android, <<"a", "n", "d">>, Oracle>>)
  /\ result.isValid
  /\ result.expression.type = "And"
  /\ Leaves(result.expression) = <<Android, Oracle>>
  /\ techStack = <<Android, Oracle>>
  /\ value

\* C12: a double-quoted multi-word term is one token, the quote characters
\* dropped and the inner spaces kept: "Machine Learning" in quotes is valid,
\* parses to one Term and matches a tag list holding "Machine Learning" but
\* not one holding only the tags "Machine" and "Learning"; quoted terms
\* combine with AND, OR and NOT like any other term.  Whatever stands between
\* one pair of quotes, parentheses and white space included, is one token.
QuotedTermIsOneToken ==
  /\ (pc # "idle" /\ Len(expression) >= 2
        /\ expression[1] = "\"" /\ expression[Len(expression)] = "\""
        /\ (\A i \in 2..(Len(expression) - 1) : expression[i] # "\"")
        /\ ~ Blank(SubSeq(expression, 2, Len(expression) - 1))) =>
       tokens = <<Core(SubSeq(expression, 2, Len(expression) - 1))>>
  /\ (pc # "idle" /\ expression = Quoted(MachineLearning)) =>
       /\ tokens = <<MachineLearning>>
       /\ result = [expression |-> [type |-> "Term", term |-> MachineLearning],
                    isValid |-> TRUE]
       /\ (pc = "evaluated" =>
             /\ value = HasTag(techStack, MachineLearning)
             /\ (techStack = <<Machine, Learning, TermPy>> => ~ value))
  /\ (pc # "idle" /\ expression = MachineLearning) => ~ result.isValid
  /\ (pc # "idle"
        /\ expression = Join(<<Quoted(MachineLearning), AND, TermPy>>)) =>
       /\ tokens = <<MachineLearning, AND, TermPy>>
       /\ result.isValid
       /\ (pc = "evaluated" =>
             value = (HasTag(techStack, MachineLearning)
                        /\ HasTag(techStack, TermPy)))
  /\ (pc # "idle"
        /\ expression = Join(<<TermPy, OR, Quoted(MachineLearning)>>)) =>
       /\ tokens = <<TermPy, OR, MachineLearning>>
       /\ result.isValid
       /\ (pc = "evaluated" =>
             value = (HasTag(techStack, TermPy)
                        \/ HasTag(techStack, MachineLearning)))
  /\ (pc # "idle" /\ expression = Join(<<NOT, Quoted(MachineLearning)>>)) =>
       /\ tokens = <<NOT, MachineLearning>>
       /\ result.isValid
       /\ (pc = "evaluated" => value = ~ HasTag(techStack, MachineLearning))

\* C12 witness: the quoted "Machine Learning" was parsed to one token and one
\* Term and matched the tag "Machine Learning"
QuotedTermMatchedMultiWordTag ==
  /\ pc = "evaluated"
  /\ expression = Quoted(MachineLearning)
  /\ tokens = <<MachineLearning>>
  /\ result.isValid
  /\ techStack = <<MachineLearning, TermPy>>
  /\ value

\* The first token, read left to right, that cannot continue a well-formed
\* expression, and why.  open counts the parentheses opened and not yet
\* closed; operand tells whether an operand or an operator is due at toks[i].
\*   "end": the tokens end where an operand is due
\*   "closing": ')' where an operand is due
\*   "operator": AND or OR where an operand is due
\*   "unclosed": after a complete operand inside parentheses, the tokens end
\*               or the token is none of AND, OR, ')'
\*   "trailing": after a complete operand outside parentheses, the token is
\*               neither AND nor OR
\*   "none": the tokens end after a complete operand outside parentheses
RECURSIVE FirstError(_, _, _, _)
FirstError(toks, i, open, operand) ==
  IF i > Len(toks)
  THEN [class |-> IF operand THEN "end"
                  ELSE IF open > 0 THEN "unclosed" ELSE "none",
        at |-> i]
  ELSE IF operand
  THEN IF toks[i] = LPAREN THEN FirstError(toks, i + 1, open + 1, TRUE)
       ELSE IF IsKeyword(toks[i], NOT) THEN FirstError(toks, i + 1, open, TRUE)
       ELSE IF toks[i] = RPAREN THEN [class |-> "closing", at |-> i]
       ELSE IF IsKeyword(toks[i], AND) \/ IsKeyword(toks[i], OR)
       THEN [class |-> "operator", at |-> i]
       ELSE FirstError(toks, i + 1, open, FALSE)
  ELSE IF IsKeyword(toks[i], AND) \/ IsKeyword(toks[i], OR)
       THEN FirstError(toks, i + 1, open, TRUE)
       ELSE IF toks[i] = RPAREN /\ open > 0
       THEN FirstError(toks, i + 1, open - 1, FALSE)
       ELSE [class |-> IF open > 0 THEN "unclosed" ELSE "trailing", at |-> i]

\* the latest call parsed a non-blank filter whose first error is of the class
FirstErrorIs(class) ==
  /\ pc # "idle"
  /\ ~ Blank(expression)
  /\ FirstError(tokens, 1, 0, TRUE).class = class

\* the latest call returned an invalid result with this message, the cursor
\* on the first offending token
FailedWith(text, token) ==
  /\ pc # "idle"
  /\ ~ result.isValid
  /\ result.errorMessage = [text |-> text, token |-> token]
  /\ currentIndex + 1 = FirstError(tokens, 1, 0, TRUE).at

\* C13: when the first error of a filter is an opening parenthesis left
\* unclosed (after the parenthesised sub-expression the tokens run out, or a
\* token other than ')' follows) the result is invalid with the message
\* "Missing closing parenthesis", and that message is given in no other
\* case; so for "(Python" and "(a b)".
UnclosedParenthesisIsReported ==
  /\ FirstErrorIs("unclosed") => FailedWith("Missing closing parenthesis", <<>>)
  /\ (pc # "idle" /\ ~ result.isValid
        /\ result.errorMessage.text = "Missing closing parenthesis") =>
       FirstErrorIs("unclosed")
  /\ (pc # "idle" /\ expression \in {LPAREN \o TermPython,
                                      <<"(", "a", " ", "b", ")">>}) =>
       FailedWith("Missing closing parenthesis", <<>>)

\* C13 witness: "( a b )" failed with the cursor on b, the token that stands
\* where ')' was due
StrayTokenBeforeClosingParenthesis ==
  /\ pc = "parsed"
  /\ tokens = <<LPAREN, <<"a">>, <<"b">>, RPAREN>>
  /\ currentIndex = 2
  /\ ~ result.isValid
  /\ result.errorMessage.text = "Missing closing parenthesis"

\* C14: when the tokens end where a primary expression is due (after a
\* trailing AND, OR or NOT, directly after '(', or with no token at all) the
\* result is invalid with the message "Unexpected end of expression", and
\* that message is given in no other case.
EndWhereOperandIsDueIsReported ==
  /\ FirstErrorIs("end") => FailedWith("Unexpected end of expression", <<>>)
  /\ (pc # "idle" /\ ~ result.isValid
        /\ result.errorMessage.text = "Unexpected end of expression") =>
       /\ FirstErrorIs("end")
       /\ currentIndex = Len(tokens)
       /\ (tokens = <<>>
             \/ tokens[Len(tokens)] = LPAREN
             \/ IsKeyword(tokens[Len(tokens)], AND)
             \/ IsKeyword(tokens[Len(tokens)], OR)
             \/ IsKeyword(tokens[Len(tokens)], NOT))

\* C14 witness: "a OR NOT" failed at the end of its three tokens
TrailingNotReachedTheEnd ==
  /\ pc = "parsed"
  /\ tokens = << <<"a">>, OR, NOT>>
  /\ currentIndex = 3
  /\ ~ result.isValid
  /\ result.errorMessage.text = "Unexpected end of expression"

\* C15: when ')' stands where a primary expression is due (as the first
\* token, right after '(', or right after AND, OR or NOT) the result is
\* invalid with the message "Unexpected closing parenthesis", and that
\* message is given in no other case.
ClosingWhereOperandIsDueIsReported ==
  /\ FirstErrorIs("closing") =>
       FailedWith("Unexpected closing parenthesis", <<>>)
  /\ (pc # "idle" /\ ~ result.isValid
        /\ result.errorMessage.text = "Unexpected closing parenthesis") =>
       /\ FirstErrorIs("closing")
       /\ tokens[currentIndex + 1] = RPAREN
       /\ (currentIndex = 0
             \/ tokens[currentIndex] = LPAREN
             \/ IsKeyword(tokens[currentIndex], AND)
             \/ IsKeyword(tokens[currentIndex], OR)
             \/ IsKeyword(tokens[currentIndex], NOT))

\* C15 witness: "( )" failed with the cursor on the ')' right after '('
EmptyParenthesesRejected ==
  /\ pc = "parsed"
  /\ tokens = <<LPAREN, RPAREN>>
  /\ currentIndex = 1
  /\ ~ result.isValid
  /\ result.errorMessage.text = "Unexpected closing parenthesis"

\* C16: when AND or OR, in any letter case, stands where a primary
\* expression is due (as the first token, right after '(', or right after
\* AND, OR or NOT) the result is invalid with the message
\* "Unexpected operator: " followed by that token in the letter case it was
\* typed in, and that message is given in no other case.
OperatorWhereOperandIsDueIsReported ==
  /\ FirstErrorIs("operator") =>
       FailedWith("Unexpected operator: ", tokens[currentIndex + 1])
  /\ (pc # "idle" /\ ~ result.isValid
        /\ result.errorMessage.text = "Unexpected operator: ") =>
       /\ FirstErrorIs("operator")
       /\ result.errorMessage.token = tokens[currentIndex + 1]
       /\ (IsKeyword(tokens[currentIndex + 1], AND)
             \/ IsKeyword(tokens[currentIndex + 1], OR))
       /\ (currentIndex = 0
             \/ tokens[currentIndex] = LPAREN
             \/ IsKeyword(tokens[currentIndex], AND)
             \/ IsKeyword(tokens[currentIndex], OR)
             \/ IsKeyword(tokens[currentIndex], NOT))
  /\ \A w \in AndWords \cup OrWords :
       (pc # "idle"
          /\ expression \in {w, Join(<<w, TermPy>>), Join(<<TermPy, AND, w>>),
                             Join(<<LPAREN, w>>), Join(<<NOT, w>>)}) =>
         /\ ~ result.isValid
         /\ result.errorMessage = [text |-> "Unexpected operator: ", token |-> w]

\* C16 witness: "Py AND or" failed on the lower-case "or", reported as typed
LowerCaseOrAfterAndReported ==
  /\ pc = "parsed"
  /\ tokens = <<TermPy, AND, <<"o", "r">> >>
  /\ currentIndex = 2
  /\ ~ result.isValid
  /\ result.errorMessage =
       [text |-> "Unexpected operator: ", token |-> <<"o", "r">>]

\* C17: when tokens remain after the top-level Or rule is complete ("a b",
\* "a )", a NOT after a complete operand) the result is invalid with the
\* message "Unexpected tokens after parsing", and that message is given in
\* no other case; a valid result of a non-blank filter is returned only
\* with the cursor equal to the number of tokens.
TrailingTokensAreReported ==
  /\ FirstErrorIs("trailing") =>
       FailedWith("Unexpected tokens after parsing", <<>>)
  /\ (pc # "idle" /\ ~ result.isValid
        /\ result.errorMessage.text = "Unexpected tokens after parsing") =>
       /\ FirstErrorIs("trailing")
       /\ currentIndex < Len(tokens)
       /\ Derives("Or", tokens, 1, currentIndex)
  /\ (pc # "idle" /\ ~ Blank(expression) /\ result.isValid) =>
       /\ currentIndex = Len(tokens)
       /\ FirstError(tokens, 1, 0, TRUE).class = "none"
  /\ \A x \in {<<"b">>, RPAREN, NOT} :
       (pc # "idle" /\ expression = Join(<<<<"a">>, x>>)) =>
         FailedWith("Unexpected tokens after parsing", <<>>)

\* C17 witness: "a NOT b" failed with the cursor on NOT, after the complete
\* operand a
NotAfterOperandLeftOver ==
  /\ pc = "parsed"
  /\ tokens = << <<"a">>, NOT, <<"b">> >>
  /\ currentIndex = 1
  /\ ~ result.isValid
  /\ result.errorMessage.text = "Unexpected tokens after parsing"

\* what the call returned and left behind is what a new parser instance
\* returns and is left with
SameAsFresh(fresh) ==
  /\ ~ fresh.escaped
  /\ result = fresh.value
  /\ (~ Blank(expression) =>
        tokens = fresh.tokens /\ currentIndex = fresh.currentIndex)

\* C18: parse is a function of its input string alone: after every call, on
\* a parser instance that earlier calls (succeeded, failed midway or
\* short-circuited) have used, the ParseResult (isValid, errorMessage, tree)
\* is the one a new instance returns for the same string.
ParseDependsOnInputOnly ==
  pc = "parsed" => SameAsFresh(parse(expression, <<>>, 0))

\* C18 witness: "a" was parsed to Term(a) on an instance whose previous call,
\* "a AND", had failed with the cursor at 2, past the one token of "a"
ParsedAfterFailedCall ==
  /\ pc = "parsed"
  /\ history = <<Join(<<<<"a">>, AND>>), <<"a">> >>
  /\ result = [expression |-> [type |-> "Term", term |-> <<"a">>],
               isValid |-> TRUE]
  /\ tokens = << <<"a">> >>
  /\ currentIndex = 1

\* a production started with the cursor at i ended with it at or after i and
\* not past the last token, and, when it returned a node, after i
Progress(toks, i, outcome) ==
  /\ outcome.currentIndex >= i
  /\ outcome.currentIndex <= Len(toks)
  /\ (~ outcome.threw => outcome.currentIndex > i)

\* C19: parse ends, in a valid result or in an error result, with the
\* cursor between 0 and the number of tokens; started at any position of the
\* token list, each production (Or, And, Not, Primary) either throws with
\* the cursor at or after its start and not past the last token, or returns
\* having consumed at least one token, so the cursor only increases and
\* every recursion is on a strictly shorter rest of the tokens.
CursorOnlyAdvancesWithinTokens ==
  /\ pc # "idle" =>
       /\ currentIndex >= 0
       /\ currentIndex <= Len(tokens)
       /\ ~ escaped
       /\ (result.isValid \/ HasErrorMessage(result))
       /\ ~ (result.isValid /\ "errorMessage" \in DOMAIN result)
  /\ (pc = "parsed" /\ ~ Blank(expression)) =>
       \A i \in 0..Len(tokens) :
         /\ Progress(tokens, i, parseOrExpression(tokens, i))
         /\ Progress(tokens, i, parseAndExpression(tokens, i))
         /\ Progress(tokens, i, parseNotExpression(tokens, i))
         /\ Progress(tokens, i, parsePrimaryExpression(tokens, i))

\* C19 witness: "( NOT a )" was parsed through the Primary, Or, And, Not and
\* Primary productions with the cursor moved over all four tokens
NestedProductionsConsumedAllTokens ==
  /\ pc = "parsed"
  /\ tokens = <<LPAREN, NOT, <<"a">>, RPAREN>>
  /\ currentIndex = 4
  /\ result = [expression |->
                 [type |-> "Not",
                  expression |-> [type |-> "Term", term |-> <<"a">>]],
               isValid |-> TRUE]

\* an entry of a tag list that is a string
IsString(tech) == tech # NullTag

\* C20: evaluate never raises: for every tree parse returns and every tag
\* list, null, undefined and empty entries included, the evaluation ends
\* with a boolean, and that boolean is the one obtained on the list with the
\* null and undefined entries removed.
EvaluateIgnoresNullTags ==
  pc = "evaluated" =>
    /\ value \in BOOLEAN
    /\ value = evaluate(result.expression, SelectSeq(techStack, IsString))

\* C20 witness: "Py AND Notion" was true on a tag list whose first entry is
\* null and whose other entries match the two terms
AndMatchedAroundNullTag ==
  /\ pc = "evaluated"
  /\ expression = Join(<<TermPy, AND, Notion>>)
  /\ result.isValid
  /\ techStack = <<NullTag, <<"n", "o", "t", "i", "o", "n">>, TermPy>>
  /\ SelectSeq(techStack, IsString) # techStack
  /\ value

\* C22: "Python NOT Django", NOT standing between two terms with no AND,
\* is true on a tag list iff the list holds the tag Python and does not hold
\* the tag Django.
PythonNotDjangoExcludesDjango ==
  (pc = "evaluated" /\ expression = PythonNotDjango) =>
    value = (HasTag(techStack, TermPython) /\ ~ HasTag(techStack, Django))

\* the term occurs inside the tag, up to letter case, and is shorter than it
IsPartOf(term, tag) ==
  /\ Len(term) < Len(tag)
  /\ \E i \in 0..(Len(tag) - Len(term)) :
       \A k \in 1..Len(term) : SameLetter(term[k], tag[i + k])

\* C23: partial matching works: a filter that is one term matches a job
\* whose tag list holds a tag the term is a proper prefix or substring of;
\* so "Post" matches a job with the tag "PostgreSQL".
PartialMatchingWorks ==
  (pc = "evaluated" /\ result.isValid /\ result.expression.type = "Term"
     /\ \E k \in 1..Len(techStack) :
          techStack[k] # NullTag
            /\ IsPartOf(result.expression.term, techStack[k])) =>
    value

\* the string with every space or tab outside quotes made a run of three,
\* every parenthesis outside quotes set between a space and a tab, and a tab
\* and a space put in front
RECURSIVE SpaceOutFrom(_, _, _)
SpaceOutFrom(s, i, inQuotes) ==
  IF i > Len(s) THEN <<>>
  ELSE IF s[i] = "\"" THEN <<s[i]>> \o SpaceOutFrom(s, i + 1, ~ inQuotes)
  ELSE IF inQuotes THEN <<s[i]>> \o SpaceOutFrom(s, i + 1, inQuotes)
  ELSE IF s[i] \in {" ", "\t"}
  THEN <<" ", "\t", " ">> \o SpaceOutFrom(s, i + 1, inQuotes)
  ELSE IF s[i] \in {"(", ")"}
  THEN <<" ", s[i], "\t">> \o SpaceOutFrom(s, i + 1, inQuotes)
  ELSE <<s[i]>> \o SpaceOutFrom(s, i + 1, inQuotes)

SpaceOut(s) == <<"\t", " ">> \o SpaceOutFrom(s, 1, FALSE)

\* the string without the spaces and tabs outside quotes that stand first,
\* last, after another space or tab, or next to a parenthesis
RECURSIVE SqueezeFrom(_, _, _)
SqueezeFrom(s, i, inQuotes) ==
  IF i > Len(s) THEN <<>>
  ELSE IF s[i] = "\"" THEN <<s[i]>> \o SqueezeFrom(s, i + 1, ~ inQuotes)
  ELSE IF ~ inQuotes /\ s[i] \in {" ", "\t"}
          /\ (\/ i = 1
              \/ i = Len(s)
              \/ s[i - 1] \in {" ", "\t", "(", ")"}
              \/ s[i + 1] \in {"(", ")"})
  THEN SqueezeFrom(s, i + 1, inQuotes)
  ELSE <<s[i]>> \o SqueezeFrom(s, i + 1, inQuotes)

Squeeze(s) == SqueezeFrom(s, 1, FALSE)

\* the call on the respaced string left the same tokens and returned the
\* same validity and message, and the same tree when valid; with
\* whenInvalid, also the same value on the tag list when invalid
RespacedAlike(other, whenInvalid) ==
  /\ other.tokens = tokens
  /\ other.value.isValid = result.isValid
  /\ (result.isValid => other.value = result)
  /\ (~ result.isValid =>
        other.value.errorMessage = result.errorMessage)
  /\ ((result.isValid \/ whenInvalid) =>
        evaluate(other.value.expression, techStack)
          = evaluate(result.expression, techStack))

\* "  Python   AND   Django  " has the tokens and the tree of
\* "Python AND Django"
PaddedExampleParsesAlike ==
  (pc # "idle" /\ expression = PythonAndDjangoPadded) =>
    /\ tokens = <<TermPython, AND, Django>>
    /\ result = parse(Join(<<TermPython, AND, Django>>), <<>>, 0).value
    /\ result.isValid

\* C24 as claimed: adding or removing spaces and tabs at token boundaries
\* outside quotes leaves the token sequence, the validity and the
\* evaluation unchanged, for every filter.
SpacingNeverMatters ==
  /\ PaddedExampleParsesAlike
  /\ (pc = "parsed" /\ ~ Blank(expression)) =>
       /\ RespacedAlike(parse(SpaceOut(expression), <<>>, 0), TRUE)
       /\ RespacedAlike(parse(Squeeze(expression), <<>>, 0), TRUE)

\* C24 as amended: adding or removing spaces and tabs at token boundaries
\* outside quotes leaves the token sequence, the validity and the error
\* message unchanged, and leaves the tree and the evaluation unchanged when
\* the filter is valid.
SpacingMattersOnlyInFallback ==
  /\ PaddedExampleParsesAlike
  /\ (pc = "parsed" /\ ~ Blank(expression)) =>
       /\ RespacedAlike(parse(SpaceOut(expression), <<>>, 0), FALSE)
       /\ RespacedAlike(parse(Squeeze(expression), <<>>, 0), FALSE)

\* C24 witness: "( a )" was parsed to the tokens and the tree of "(a)"
SpacedParenthesesParsed ==
  /\ pc = "parsed"
  /\ expression = <<"(", " ", "a", " ", ")">>
  /\ Squeeze(expression) = <<"(", "a", ")">>
  /\ tokens = <<LPAREN, <<"a">>, RPAREN>>
  /\ result = [expression |-> [type |-> "Term", term |-> <<"a">>],
               isValid |-> TRUE]

\* the position of the last quote character of a string that has one
LastQuote(s) ==
  CHOOSE k \in 1..Len(s) :
    s[k] = "\"" /\ \A j \in (k + 1)..Len(s) : s[j] # "\""

\* t is what s ends with
EndsWith(s, t) ==
  Len(t) <= Len(s) /\ SubSeq(s, Len(s) - Len(t) + 1, Len(s)) = t

\* what follows the last quote went into one last token: the tokens are
\* those of the text before that quote, the last of them extended or one
\* more added, and the last token ends with what follows the quote
AbsorbedInLastToken(before, after) ==
  Blank(after)
  \/ /\ tokens # <<>>
     /\ EndsWith(tokens[Len(tokens)], Core(after))
     /\ Len(tokens) \in {Len(before), Len(before) + 1}
     /\ \A n \in 1..(Len(tokens) - 1) : tokens[n] = before[n]

\* the call on the filter with its quote closed left the same tokens and,
\* when it returned a valid result, returned the result of the latest call
ClosedQuoteAlike(closed) ==
  /\ closed.tokens = tokens
  /\ closed.value.isValid = result.isValid
  /\ (closed.value.isValid => closed.value = result)

\* C25: an unterminated quote is tolerated silently: with an odd number of
\* quote characters nothing is raised, and everything after the last quote,
\* spaces, tabs and parentheses included, goes into one last token; a filter
\* whose only defect is the missing closing quote at its end parses to the
\* result of the filter with the quote closed.
UnterminatedQuoteIsAbsorbed ==
  (pc = "parsed" /\ ~ Blank(expression) /\ ~ EvenQuotes(expression)) =>
    /\ ~ escaped
    /\ AbsorbedInLastToken(
         tokenize(SubSeq(expression, 1, LastQuote(expression) - 1)),
         SubSeq(expression, LastQuote(expression) + 1, Len(expression)))
    /\ ClosedQuoteAlike(parse(Append(expression, "\""), <<>>, 0))

\* C25 witness: the filter Python AND "Machine Learning, its quote left
\* open, was parsed to the three tokens and the valid tree of the closed one
OpenQuoteParsedAsClosed ==
  /\ pc = "parsed"
  /\ expression = PythonAndOpenQuote
  /\ tokens = <<TermPython, AND, MachineLearning>>
  /\ result.isValid
  /\ result.expression =
       [type |-> "And",
        left |-> [type |-> "Term", term |-> TermPython],
        right |-> [type |-> "Term", term |-> MachineLearning]]

\* the classes of the error taxonomy a message belongs to
ErrorClasses(message) ==
  {class \in {"UnexpectedClosingParen", "UnexpectedEndOfExpression",
              "MissingClosingParen", "UnexpectedOperator", "TrailingTokens"} :
     \/ class = "UnexpectedClosingParen"
        /\ message = UnexpectedClosingParenthesis
     \/ class = "UnexpectedEndOfExpression"
        /\ message = UnexpectedEndOfExpression
     \/ class = "MissingClosingParen"
        /\ message = MissingClosingParenthesis
     \/ class = "UnexpectedOperator"
        /\ message.text = "Unexpected operator: "
        /\ (IsKeyword(message.token, AND) \/ IsKeyword(message.token, OR))
     \/ class = "TrailingTokens"
        /\ message = UnexpectedTokensAfterParsing}

\* C26: the error taxonomy is closed: whenever parse returned an invalid
\* result, its errorMessage belongs to exactly one of the five classes
\* (unexpected closing parenthesis, unexpected end of expression, missing
\* closing parenthesis, unexpected operator followed by the AND or OR token,
\* unexpected tokens after parsing), and it is never the generic message
\* "Invalid expression".
ErrorTaxonomyIsClosed ==
  (pc # "idle" /\ ~ escaped /\ ~ result.isValid) =>
    /\ Cardinality(ErrorClasses(result.errorMessage)) = 1
    /\ result.errorMessage # InvalidExpression
    /\ result.errorMessage.text # "Invalid expression"

\* C26 witness: a lone ')' was parsed to an invalid result whose message is
\* of the class unexpected closing parenthesis and of no other
LoneClosingParenthesisClassified ==
  /\ pc = "parsed"
  /\ expression = RPAREN
  /\ ~ result.isValid
  /\ ErrorClasses(result.errorMessage) = {"UnexpectedClosingParen"}

\* the character at position i of s is inside a pair of quotes
InsideQuotes(s, i) == s[i] # "\"" /\ ~ EvenQuotes(SubSeq(s, 1, i - 1))

\* the string without its quote characters
DropQuotes(s) == SelectSeq(s, LAMBDA c : c # "\"")

\* position j of s is an end of the string, white space, or a parenthesis
\* outside quotes: what ends a token
EndsToken(s, j) ==
  \/ j < 1
  \/ j > Len(s)
  \/ s[j] \in WhiteSpace
  \/ s[j] \in {"(", ")"} /\ ~ InsideQuotes(s, j)

\* the nearest position before i, and after i, that holds no quote
Before(s, i) ==
  IF \E j \in 1..(i - 1) : s[j] # "\""
  THEN CHOOSE j \in 1..(i - 1) :
         s[j] # "\"" /\ \A k \in (j + 1)..(i - 1) : s[k] = "\""
  ELSE 0
After(s, i) ==
  IF \E j \in (i + 1)..Len(s) : s[j] # "\""
  THEN CHOOSE j \in (i + 1)..Len(s) :
         s[j] # "\"" /\ \A k \in (i + 1)..(j - 1) : s[k] = "\""
  ELSE Len(s) + 1

\* the quotes of s group nothing: inside them there is no white space, and
\* a parenthesis only on its own
QuotesGroupNothing(s) ==
  \A i \in 1..Len(s) :
    InsideQuotes(s, i) =>
      /\ s[i] \notin WhiteSpace
      /\ s[i] \in {"(", ")"} =>
           EndsToken(s, Before(s, i)) /\ EndsToken(s, After(s, i))

\* the call on the filter without its quotes left the same tokens and gave
\* the same validity, the same tree when valid, the same message when not
UnquotedAlike(unquoted) ==
  /\ unquoted.tokens = tokens
  /\ unquoted.value.isValid = result.isValid
  /\ (result.isValid => unquoted.value = result)
  /\ (~ result.isValid =>
        unquoted.value.errorMessage = result.errorMessage)

\* C28: quoting does not escape keywords or parentheses: a quoted AND, OR,
\* NOT, '(' or ')' gives the token of the unquoted text and is parsed as the
\* operator or parenthesis, so a filter whose quotes group nothing parses as
\* the filter without the quotes (Python "AND" Django as Python AND Django);
\* and no valid tree has a Term whose text is AND, OR or NOT in any letter
\* case, or a bare parenthesis.
QuotingDoesNotEscape ==
  pc # "idle" =>
    /\ (QuotesGroupNothing(expression) /\ ~ Blank(DropQuotes(expression))) =>
         UnquotedAlike(parse(DropQuotes(expression), <<>>, 0))
    /\ (result.isValid /\ result.expression # Null) =>
         \A n \in 1..Len(Leaves(result.expression)) :
           IsTermToken(Leaves(result.expression)[n])

\* C28 witness: Python "AND" Django was parsed to And(Python, Django) and
\* matched the tags Python, Django
QuotedAndJoinedTwoTerms ==
  /\ pc = "evaluated"
  /\ expression = PythonQuotedAndDjango
  /\ tokens = <<TermPython, AND, Django>>
  /\ result.isValid
  /\ result.expression.type = "And"
  /\ techStack = <<TermPython, Django>>
  /\ value

\* C29: the expression of a ParseResult is null exactly when the filter is
\* empty or white space only; a filter that is not blank but tokenizes to no
\* token (only quote characters, or quoted white space) is not an empty
\* filter: the result is invalid with "Unexpected end of expression" and the
\* fallback Term over the raw string.
ExpressionIsNullOnlyForBlank ==
  (pc # "idle" /\ ~ escaped) =>
    /\ result.expression = Null <=> Blank(expression)
    /\ (~ Blank(expression) /\ tokens = <<>>) =>
         /\ ~ result.isValid
         /\ result.errorMessage = UnexpectedEndOfExpression
         /\ result.expression = TermExpression(expression)

\* C29 witness: the filter of a quoted space, which has no token, was parsed
\* to an invalid result with the fallback Term over the three characters
QuotedSpaceIsNotAnEmptyFilter ==
  /\ pc = "parsed"
  /\ expression = <<"\"", " ", "\"">>
  /\ tokens = <<>>
  /\ ~ result.isValid
  /\ result.errorMessage = UnexpectedEndOfExpression
  /\ result.expression = TermExpression(expression)

\* what the component shows for the filter: valid with no message for the
\* empty filter, else the validity and the message of parse(filter)
ShowsValidityOf(filter, parsed) ==
  /\ techStackFilterIsValid = (filter = <<>> \/ parsed.isValid)
  /\ techStackErrorMessage =
       IF filter = <<>> \/ parsed.isValid
       THEN NoError
       ELSE parsed.errorMessage

\* C27: the filter UI always shows the validity of the most recently applied
\* tech-stack filter: after every applyFilters() or clearFilters(), in any
\* sequence of edits, techStackFilterIsValid equals parse(techStackFilter)
\* .isValid (true for the empty filter) and techStackErrorMessage is the
\* parse error message when invalid and the empty string otherwise; no
\* stale error survives applying a valid or an empty filter.
FilterValidityIsCurrent ==
  /\ ShowsValidityOf(dataSourceFilter, parse(dataSourceFilter, <<>>, 0).value)
  /\ called \in {"applyFilters", "clearFilters"} =>
       /\ dataSourceFilter = techStackFilter
       /\ ShowsValidityOf(techStackFilter,
                          parse(techStackFilter, <<>>, 0).value)
  /\ called = "clearFilters" => techStackFilter = <<>>

\* C27 witness: clearFilters() was called while the error of an invalid
\* filter was shown, and the field is empty, valid, without a message
ClearedAfterInvalidFilter ==
  /\ called = "clearFilters"
  /\ history # <<>>
  /\ ~ result.isValid
  /\ dataSourceFilter = <<>>
  /\ techStackFilterIsValid
  /\ techStackErrorMessage = NoError

\* C30: in ComparisonService, after any sequence of addJob, removeJob,
\* clearAll, reorderJobs, openComparisonView and closeComparisonView calls,
\* whenever showComparisonView is true the comparison list holds at least
\* one job id.
ComparisonViewOpenOnlyOnJobs ==
  showComparisonView => Len(jobIds) >= 1

\* C21: evaluate is pure and the tree is immutable.  A step that evaluates
\* the latest result leaves the tag list and the result as they were; a step
\* that evaluates the kept tree leaves the list as the caller passed it and
\* the kept tree as it was, also when the parser has parsed other strings
\* since the tree was kept; and the value such an evaluation returns is the
\* value of the tree a new parser builds from the same string, evaluated on
\* that list.
EvaluateIsPure ==
  /\ [](pc = "evaluatedKept" =>
          value = evaluate(parse(kept.source, <<>>, 0).value.expression,
                           kept.lists[Len(kept.lists)]))
  /\ [][/\ (pc = "parsed" /\ pc' = "evaluated") =>
             (techStack' = techStack /\ result' = result /\ kept' = kept)
        /\ (kept'.lists # kept.lists) =>
             /\ techStack' = kept'.lists[Len(kept'.lists)]
             /\ kept'.expression = kept.expression
             /\ kept'.source = kept.source
             /\ result' = result]_vars

\* C21 witness: the tree of "C AND NOT Py" was kept, the parser then parsed
\* another string, and the kept tree, which had been false on a list with
\* Py, was evaluated a second time, on another list, and was true
KeptTreeEvaluatedAfterLaterParse ==
  /\ pc = "evaluatedKept"
  /\ kept.source = CAndNotPy
  /\ Len(history) > kept.at
  /\ result.expression # kept.expression
  /\ Len(kept.lists) = 2
  /\ kept.lists[1] = <<TagC, TagPy, TagNode>>
  /\ kept.lists[2] = <<TagC, TagReact, TagNode>>
  /\ value

=============================================================================
